---- MODULE Spec2Model ----
(***************************************************************************)
(* A model of the conversation store of the AIMS comparison harness        *)
(* (src/aims/models.py) and of the backend adapters that drive it          *)
(* (src/aims/clients.py).                                                  *)
(*                                                                         *)
(* Python values are represented as follows.                               *)
(*   - Optional values: None is <<>> and a present value x is <<x>>.       *)
(*   - Conversation identifiers (uuid4 strings) are the integers           *)
(*     1..MaxConvs; 0 is an identifier uuid4 never produces.               *)
(*   - time.time() reads the variable now, a wall clock that never runs    *)
(*     backwards and that advances between the steps of the program.       *)
(*   - Message content is the tagged union of the source's                 *)
(*     Union[str, List[Dict]]: Text(s) or Parts(<<dict, ...>>).            *)
(*   - A float quotient a / b is the reduced fraction <<p, q>>, q > 0.     *)
(*   - A str is the sequence of its characters, each a one-character       *)
(*     string; a CJK character or full-width mark is written by an ASCII   *)
(*     name ("ke", "neng", "fwstop") and a newline is "LF".                *)
(***************************************************************************)
EXTENDS Integers, Sequences, FiniteSets, TLC

VARIABLES
    conversation_manager,   \* the global ConversationManager instance
    now,                    \* the wall clock read by time.time()
    pc,                     \* position of the single control thread
    frame,                  \* locals of the handler that is running
    lastCall,               \* the last completed call: operation and result
    files,                  \* names of the conversation files on disk
    disk,                   \* the JSON document each conversation file holds
    csv                     \* the summary CSV last written, if any

vars == <<conversation_manager, now, pc, frame, lastCall, files, disk, csv>>

----------------------------------------------------------------------------
(* Bounds of the model *)

MaxConvs == 2
MaxMsgs == 2
MaxTime == 2
MaxLen == 4
MaxStamp == 2
MaxTurns == 2

----------------------------------------------------------------------------
(* Values *)

None == <<>>
Some(x) == <<x>>

Text(s) == [kind |-> "text", text |-> s]
Parts(ps) == [kind |-> "parts", parts |-> ps]

\* A content that is a single dict, which the evaluator also accepts.
Dict(d) == [kind |-> "dict", dict |-> d]

Roles == {"system", "user", "assistant"}

\* The keys ConversationManager.__init__ gives current_conversation_ids.
Backends == {"monica", "openai", "gemini"}

\* Backend names a caller passes to start_conversation: a known one and one
\* that is not a key yet.
ApiNames == {"monica", "custom"}

Models == {"gpt-4o"}

ConvIds == 1..MaxConvs
AnyIds == 0..MaxConvs

ImageUrl == "http://img"

\* The texts of the sample prompts and responses.
hi == <<"h", "i">>
hello == <<"h", "e", "l", "l", "o">>
hello_bang == hello \o <<"!">>
image_attached ==
    <<" ", "[", "I", "m", "a", "g", "e", " ",
      "a", "t", "t", "a", "c", "h", "e", "d", "]">>

\* A structured content as the OpenAI-compatible adapters build it.
StructuredContent(prompt, image_url) ==
    Parts(<< [type |-> "text", text |-> prompt],
             [type |-> "image_url", image_url |-> [url |-> image_url]] >>)

Contents == {Text(hi), StructuredContent(hello, ImageUrl)}

RECURSIVE SumSeq(_)
SumSeq(s) == IF s = <<>> THEN 0 ELSE s[1] + SumSeq(Tail(s))

Abs(x) == IF x < 0 THEN -x ELSE x

RECURSIVE Gcd(_, _)
Gcd(a, b) == IF b = 0 THEN a ELSE Gcd(b, a % b)

\* The quotient a / b (b > 0) as a reduced fraction.
Quotient(a, b) ==
    LET g == Gcd(Abs(a), b)
    IN  <<a \div g, b \div g>>

\* The integer 0 the averages return for an empty list.
Zero == <<0, 1>>

----------------------------------------------------------------------------
(* Message and Conversation: src/aims/models.py *)

\* Message(role, content, timestamp=None) with __post_init__.
Message(role, content, timestamp) ==
    [role |-> role,
     content |-> content,
     timestamp |-> IF timestamp = None THEN now ELSE timestamp[1]]

\* Mutant: the message is inserted at the head of the list.
Conversation_add_message_front(conv, message) ==
    [conv EXCEPT !.messages = <<message>> \o @]

Conversation_add_message(conv, message) ==
    [conv EXCEPT !.messages = Append(@, message)]

Conversation_end_conversation(conv) ==
    [conv EXCEPT !.end_time = Some(now)]

\* The loop of _calculate_avg_response_time from 0-based index i on.
RECURSIVE response_times(_, _)
response_times(messages, i) ==
    IF i + 1 > Len(messages) THEN <<>>
    ELSE IF messages[i + 1].role = "assistant" /\ messages[i].role = "user"
         THEN <<messages[i + 1].timestamp - messages[i].timestamp>>
                  \o response_times(messages, i + 1)
         ELSE response_times(messages, i + 1)

\* Mutant: the sum is divided by the number of messages.
calculate_avg_response_time_per_message(conv) ==
    LET rt == response_times(conv.messages, 1)
    IN  IF rt # <<>> THEN Quotient(SumSeq(rt), Len(conv.messages)) ELSE Zero

calculate_avg_response_time(conv) ==
    LET rt == response_times(conv.messages, 1)
    IN  IF rt # <<>> THEN Quotient(SumSeq(rt), Len(rt)) ELSE Zero

\* len(item.get('text', '')) summed over the dict items that have a 'text' key.
RECURSIVE parts_text_length(_)
parts_text_length(ps) ==
    IF ps = <<>> THEN 0
    ELSE (IF "text" \in DOMAIN ps[1] THEN Len(ps[1].text) ELSE 0)
             + parts_text_length(Tail(ps))

content_length(r) ==
    IF r.kind = "text" THEN Len(r.text) ELSE parts_text_length(r.parts)

RECURSIVE response_lengths(_)
response_lengths(messages) ==
    IF messages = <<>> THEN <<>>
    ELSE (IF messages[1].role = "assistant"
          THEN <<content_length(messages[1].content)>> ELSE <<>>)
             \o response_lengths(Tail(messages))

calculate_avg_response_length(conv) ==
    LET lengths == response_lengths(conv.messages)
    IN  IF lengths = <<>> THEN Zero ELSE Quotient(SumSeq(lengths), Len(lengths))

is_user(m) == m.role = "user"

\* Mutant: num_turns is added to the value computed before.
calculate_metrics_accumulate(conv) ==
    LET c == IF conv.end_time = None THEN Conversation_end_conversation(conv)
             ELSE conv
        turns == Len(SelectSeq(c.messages, is_user))
    IN  [c EXCEPT !.metrics = Some(
            [total_duration |-> c.end_time[1] - c.start_time,
             num_turns |-> IF conv.metrics = None THEN turns
                           ELSE conv.metrics[1].num_turns + turns,
             avg_assistant_response_time |-> calculate_avg_response_time(c),
             avg_assistant_response_length |-> calculate_avg_response_length(c)])]

\* Mutant: num_turns counts the messages of every role.
calculate_metrics_count_all(conv) ==
    LET c == IF conv.end_time = None THEN Conversation_end_conversation(conv)
             ELSE conv
    IN  [c EXCEPT !.metrics = Some(
            [total_duration |-> c.end_time[1] - c.start_time,
             num_turns |-> Len(c.messages),
             avg_assistant_response_time |-> calculate_avg_response_time(c),
             avg_assistant_response_length |-> calculate_avg_response_length(c)])]

\* Mutant: the conversation is ended again whether or not it was ended.
calculate_metrics_always_ends(conv) ==
    LET c == Conversation_end_conversation(conv)
    IN  [c EXCEPT !.metrics = Some(
            [total_duration |-> c.end_time[1] - c.start_time,
             num_turns |-> Len(SelectSeq(c.messages, is_user)),
             avg_assistant_response_time |-> calculate_avg_response_time(c),
             avg_assistant_response_length |-> calculate_avg_response_length(c)])]

calculate_metrics(conv) ==
    LET c == IF conv.end_time = None THEN Conversation_end_conversation(conv)
             ELSE conv
    IN  [c EXCEPT !.metrics = Some(
            [total_duration |-> c.end_time[1] - c.start_time,
             num_turns |-> Len(SelectSeq(c.messages, is_user)),
             avg_assistant_response_time |-> calculate_avg_response_time(c),
             avg_assistant_response_length |-> calculate_avg_response_length(c)])]

\* The name save_to_file writes: api_name, id and int(start_time).
file_name(conv) == <<conv.api_name, conv.id, conv.start_time>>

\* JSON documents, as json.dump writes and json.load reads them: a value is
\* a string, a number, null, an array or an object.
json_string(s) == [json |-> "string", value |-> s]
json_number(x) == [json |-> "number", value |-> x]
json_null == [json |-> "null"]
json_array(items) == [json |-> "array", items |-> items]
json_object(members) == [json |-> "object", members |-> members]

\* One part of a structured content: {"type", "text"} or
\* {"type", "image_url": {"url"}}.
dump_part(part) ==
    json_object([k \in DOMAIN part |->
                     IF k = "image_url"
                     THEN json_object([url |-> json_string(part.image_url.url)])
                     ELSE json_string(part[k])])

\* Mutant: a structured content is written through default=str.
dump_content_as_str(content) ==
    IF content.kind = "text" THEN json_string(content.text)
    ELSE json_string(<<"[", "]">>)

dump_content(content) ==
    IF content.kind = "text" THEN json_string(content.text)
    ELSE json_array([k \in 1..Len(content.parts) |->
                         dump_part(content.parts[k])])

dump_message(message) ==
    json_object([role |-> json_string(message.role),
                 content |-> dump_content(message.content),
                 timestamp |-> json_number(message.timestamp)])

dump_metrics(metrics) ==
    IF metrics = None THEN json_null
    ELSE json_object([k \in DOMAIN metrics[1] |-> json_number(metrics[1][k])])

\* json.dump(self.to_dict()): asdict turns the conversation and each of its
\* messages into a dict, json.dump writes it.
json_dump(conv) ==
    json_object(
        [id |-> json_string(conv.id),
         api_name |-> json_string(conv.api_name),
         messages |-> json_array([k \in 1..Len(conv.messages) |->
                                      dump_message(conv.messages[k])]),
         model |-> json_string(conv.model),
         start_time |-> json_number(conv.start_time),
         end_time |-> IF conv.end_time = None THEN json_null
                      ELSE json_number(conv.end_time[1]),
         metrics |-> dump_metrics(conv.metrics)])

\* Conversation.save_to_file: the file of that name is written anew.
save_to_file(d, conv) ==
    [x \in DOMAIN d \cup {file_name(conv)} |->
         IF x = file_name(conv) THEN json_dump(conv) ELSE d[x]]

load_part(j) ==
    [k \in DOMAIN j.members |->
         IF k = "image_url" THEN [url |-> j.members.image_url.members.url.value]
         ELSE j.members[k].value]

load_content(j) ==
    IF j.json = "string" THEN Text(j.value)
    ELSE Parts([k \in 1..Len(j.items) |-> load_part(j.items[k])])

\* One element of the "messages" list json.load returns: a dict.
load_message(j) ==
    [role |-> j.members.role.value,
     content |-> load_content(j.members.content),
     timestamp |-> j.members.timestamp.value]

\* SimpleConversation(json.load(f)): messages = data.get('messages', []).
SimpleConversation(j) ==
    [messages |->
         IF "messages" \in DOMAIN j.members
         THEN [k \in 1..Len(j.members.messages.items) |->
                   load_message(j.members.messages.items[k])]
         ELSE <<>>]

----------------------------------------------------------------------------
(* ConversationManager: src/aims/models.py *)

\* ConversationManager.__init__. The dict conversations is the mapping
\* conversations together with its insertion order conversation_keys.
ConversationManager_init ==
    [conversations |-> <<>>,
     conversation_keys |-> <<>>,
     current_conversation_ids |-> [b \in Backends |-> None]]

\* uuid.uuid4(): an identifier that is not in use (the first one, identifiers
\* being interchangeable).
uuid4(mgr) == {i \in ConvIds : /\ i \notin DOMAIN mgr.conversations
                               /\ \A j \in 1..(i - 1) : j \in DOMAIN mgr.conversations}

\* d[k] = v on a Python dict.
dict_set(d, k, v) == [x \in DOMAIN d \cup {k} |-> IF x = k THEN v ELSE d[x]]

\* Mutant: the backend's current pointer is not updated.
start_conversation_no_pointer(mgr, api_name, model, conv_id) ==
    LET conversation == [id |-> conv_id,
                         api_name |-> api_name,
                         messages |-> <<>>,
                         model |-> model,
                         start_time |-> now,
                         end_time |-> None,
                         metrics |-> None]
    IN  [conversations |-> dict_set(mgr.conversations, conv_id, conversation),
         conversation_keys |-> Append(mgr.conversation_keys, conv_id),
         current_conversation_ids |-> mgr.current_conversation_ids]

\* Mutant: the pointer is set to a second, unregistered identifier.
start_conversation_other_key(mgr, api_name, model, conv_id) ==
    LET conversation == [id |-> conv_id,
                         api_name |-> api_name,
                         messages |-> <<>>,
                         model |-> model,
                         start_time |-> now,
                         end_time |-> None,
                         metrics |-> None]
    IN  [conversations |-> dict_set(mgr.conversations, conv_id, conversation),
         conversation_keys |-> Append(mgr.conversation_keys, conv_id),
         current_conversation_ids |->
             dict_set(mgr.current_conversation_ids, api_name, Some(0))]

\* Mutant: the backend's current conversation is ended before the new one
\* takes its place.
start_conversation_ends_old(mgr, api_name, model, conv_id) ==
    LET conversation == [id |-> conv_id,
                         api_name |-> api_name,
                         messages |-> <<>>,
                         model |-> model,
                         start_time |-> now,
                         end_time |-> None,
                         metrics |-> None]
        old == IF api_name \in DOMAIN mgr.current_conversation_ids
               THEN mgr.current_conversation_ids[api_name] ELSE None
        ended == IF old # None /\ old[1] \in DOMAIN mgr.conversations
                 THEN [mgr.conversations EXCEPT
                           ![old[1]] = Conversation_end_conversation(@)]
                 ELSE mgr.conversations
    IN  [conversations |-> dict_set(ended, conv_id, conversation),
         conversation_keys |->
             IF conv_id \in DOMAIN mgr.conversations THEN mgr.conversation_keys
             ELSE Append(mgr.conversation_keys, conv_id),
         current_conversation_ids |->
             dict_set(mgr.current_conversation_ids, api_name, Some(conv_id))]

start_conversation(mgr, api_name, model, conv_id) ==
    LET conversation == [id |-> conv_id,
                         api_name |-> api_name,
                         messages |-> <<>>,
                         model |-> model,
                         start_time |-> now,
                         end_time |-> None,
                         metrics |-> None]
    IN  [conversations |-> dict_set(mgr.conversations, conv_id, conversation),
         conversation_keys |->
             IF conv_id \in DOMAIN mgr.conversations THEN mgr.conversation_keys
             ELSE Append(mgr.conversation_keys, conv_id),
         current_conversation_ids |->
             dict_set(mgr.current_conversation_ids, api_name, Some(conv_id))]

\* Mutant: add_message returns true for a missing identifier too.
add_message_returns_true(mgr, conv_id, message) ==
    IF conv_id \in DOMAIN mgr.conversations
    THEN [mgr |-> [mgr EXCEPT !.conversations[conv_id] =
                                  Conversation_add_message(@, message)],
          ret |-> TRUE]
    ELSE [mgr |-> mgr, ret |-> TRUE]

\* Mutant: a conversation that has ended takes no more messages.
add_message_refuses_ended(mgr, conv_id, message) ==
    IF conv_id \in DOMAIN mgr.conversations
          /\ mgr.conversations[conv_id].end_time = None
    THEN [mgr |-> [mgr EXCEPT !.conversations[conv_id] =
                                  Conversation_add_message(@, message)],
          ret |-> TRUE]
    ELSE [mgr |-> mgr, ret |-> FALSE]

\* The manager after add_message and the value it returns.
add_message(mgr, conv_id, message) ==
    IF conv_id \in DOMAIN mgr.conversations
    THEN [mgr |-> [mgr EXCEPT !.conversations[conv_id] =
                                  Conversation_add_message(@, message)],
          ret |-> TRUE]
    ELSE [mgr |-> mgr, ret |-> FALSE]

\* dict.get(conv_id)
get_conversation(mgr, conv_id) ==
    IF conv_id \in DOMAIN mgr.conversations THEN Some(mgr.conversations[conv_id])
    ELSE None

get_current_conversation(mgr, api_name) ==
    LET conv_id == IF api_name \in DOMAIN mgr.current_conversation_ids
                   THEN mgr.current_conversation_ids[api_name] ELSE None
    IN  IF conv_id # None THEN get_conversation(mgr, conv_id[1]) ELSE None

\* Mutant: a conversation that is already ended keeps its end_time.
end_conversation_once(mgr, conv_id) ==
    IF conv_id \in DOMAIN mgr.conversations
    THEN [mgr |-> [mgr EXCEPT !.conversations[conv_id] =
                                  IF @.end_time = None
                                  THEN Conversation_end_conversation(@) ELSE @],
          ret |-> TRUE]
    ELSE [mgr |-> mgr, ret |-> FALSE]

end_conversation(mgr, conv_id) ==
    IF conv_id \in DOMAIN mgr.conversations
    THEN [mgr |-> [mgr EXCEPT !.conversations[conv_id] =
                                  Conversation_end_conversation(@)],
          ret |-> TRUE]
    ELSE [mgr |-> mgr, ret |-> FALSE]

\* Mutant: metrics that exist already are not computed again.
save_one_keeps_metrics(conv) ==
    LET c == IF conv.end_time = None THEN Conversation_end_conversation(conv)
             ELSE conv
    IN  IF c.metrics = None THEN calculate_metrics(c) ELSE c

\* One iteration of the loop of save_all_conversations.
save_one(conv) ==
    calculate_metrics(IF conv.end_time = None
                      THEN Conversation_end_conversation(conv) ELSE conv)

\* One row of _create_summary_csv: the columns that identify the conversation
\* (the time and metric columns are formatted copies of the conversation's fields).
csv_row(conv) ==
    [id |-> conv.id, api_name |-> conv.api_name, model |-> conv.model]

----------------------------------------------------------------------------
(* Calls of the store by a client: one action per operation *)

Idle == pc = "idle"

\* The result is stored under the name of the operation that returned it.
Returned(op, ret) ==
    lastCall' = [op |-> op, ret |-> (op :> ret)]

\* The value the call returned.
Result(call) == call.ret[call.op]

\* The arguments (role, content, timestamp) a client builds a Message from:
\* every role, both shapes of content, a defaulted and an explicit timestamp.
MessageArgs ==
    { <<"user", Text(hi), None>>,
      <<"assistant", StructuredContent(hello, ImageUrl), None>>,
      <<"system", Text(hi), Some(1)>> }

\* The number of messages in the store.
RECURSIVE count_messages(_, _)
count_messages(mgr, keys) ==
    IF keys = <<>> THEN 0
    ELSE Len(mgr.conversations[keys[1]].messages) + count_messages(mgr, Tail(keys))

StartConversationCall(api_name, model) ==
    /\ Idle
    /\ Len(conversation_manager.conversation_keys) < MaxConvs
    /\ \E conv_id \in uuid4(conversation_manager) :
           /\ conversation_manager' =
                  start_conversation(conversation_manager, api_name, model, conv_id)
           /\ Returned("start_conversation", conv_id)
    /\ UNCHANGED <<now, pc, frame, files, disk, csv>>

AddMessageCall(conv_id, role, content, timestamp) ==
    /\ Idle
    /\ count_messages(conversation_manager,
                      conversation_manager.conversation_keys) < MaxMsgs
    /\ LET message == Message(role, content, timestamp)
           r == add_message(conversation_manager, conv_id, message)
       IN  /\ conversation_manager' = r.mgr
           /\ Returned("add_message", r.ret)
    /\ UNCHANGED <<now, pc, frame, files, disk, csv>>

EndConversationCall(conv_id) ==
    /\ Idle
    /\ LET r == end_conversation(conversation_manager, conv_id)
       IN  /\ conversation_manager' = r.mgr
           /\ Returned("end_conversation", r.ret)
    /\ UNCHANGED <<now, pc, frame, files, disk, csv>>

\* get_conversation(conv_id).calculate_metrics() on a registered conversation.
CalculateMetricsCall(conv_id) ==
    /\ Idle
    /\ conv_id \in DOMAIN conversation_manager.conversations
    /\ LET conv == calculate_metrics(conversation_manager.conversations[conv_id])
       IN  /\ conversation_manager' =
                  [conversation_manager EXCEPT !.conversations[conv_id] = conv]
           /\ Returned("calculate_metrics", conv.metrics[1])
    /\ UNCHANGED <<now, pc, frame, files, disk, csv>>

\* save_all_conversations: entry, one step per iteration of its loop, and
\* _create_summary_csv followed by the return.
SaveBegin ==
    /\ Idle
    /\ pc' = "save_loop"
    /\ frame' = [todo |-> conversation_manager.conversation_keys,
                 saved_files |-> <<>>]
    /\ UNCHANGED <<conversation_manager, now, lastCall, files, disk, csv>>

SaveConversation ==
    /\ pc = "save_loop"
    /\ frame.todo # <<>>
    /\ LET conv_id == Head(frame.todo)
           conv == save_one(conversation_manager.conversations[conv_id])
       IN  /\ conversation_manager' =
                  [conversation_manager EXCEPT !.conversations[conv_id] = conv]
           /\ files' = files \cup {file_name(conv)}
           /\ disk' = save_to_file(disk, conv)
           /\ frame' = [todo |-> Tail(frame.todo),
                        saved_files |-> Append(frame.saved_files, file_name(conv))]
    /\ UNCHANGED <<now, pc, lastCall, csv>>

create_summary_csv(mgr) ==
    LET convs == [k \in DOMAIN mgr.conversations |->
                      IF mgr.conversations[k].metrics = None
                      THEN calculate_metrics(mgr.conversations[k])
                      ELSE mgr.conversations[k]]
    IN  [mgr |-> [mgr EXCEPT !.conversations = convs],
         rows |-> [i \in 1..Len(mgr.conversation_keys) |->
                       csv_row(convs[mgr.conversation_keys[i]])]]

SaveSummary ==
    /\ pc = "save_loop"
    /\ frame.todo = <<>>
    /\ LET r == create_summary_csv(conversation_manager)
       IN  /\ conversation_manager' = r.mgr
           /\ csv' = Some(r.rows)
    /\ Returned("save_all_conversations", frame.saved_files)
    /\ pc' = "idle"
    /\ frame' = None
    /\ UNCHANGED <<now, files, disk>>

\* Time passes between two steps.
Tick ==
    /\ now < MaxTime
    /\ now' = now + 1
    /\ UNCHANGED <<conversation_manager, pc, frame, lastCall, files, disk, csv>>

Init ==
    /\ conversation_manager = ConversationManager_init
    /\ now = 1
    /\ pc = "idle"
    /\ frame = None
    /\ lastCall = [op |-> "none", ret |-> ("none" :> None)]
    /\ files = {}
    /\ disk = <<>>
    /\ csv = None

----------------------------------------------------------------------------
(* The backend adapters: src/aims/clients.py *)

Clients == {"monica", "openai", "gemini"}

Prompts == {hi}
Responses == {hello}
Images == {None, Some(ImageUrl)}

\* default_model / text_model / vision_model of the three clients.
client_model(client, image_url) ==
    CASE client = "monica" -> "gpt-4o"
      [] client = "openai" -> "gpt-4.1"
      [] client = "gemini" -> "gemini-2.5-pro"

\* The content of the user message each client appends.
user_content(client, prompt, image_url) ==
    IF client = "gemini"
    THEN IF image_url = None THEN Text(prompt)
         ELSE Text(prompt \o image_attached)
    ELSE IF image_url # None THEN StructuredContent(prompt, image_url[1])
         ELSE Text(prompt)

\* get_client() / setup() raises: the except clause returns (None, None).
SendSetupFail(client) ==
    /\ Idle
    /\ Returned("send_message", <<None, None>>)
    /\ UNCHANGED <<conversation_manager, now, pc, frame, files, disk, csv>>

\* send_message called with an identifier that get_conversation does not
\* find: conversation is None, conversation.add_message raises, and the
\* except clause returns (None, None).
SendUnknown(client, conversation_id) ==
    /\ Idle
    /\ get_conversation(conversation_manager, conversation_id) = None
    /\ Returned("send_message", <<None, None>>)
    /\ UNCHANGED <<conversation_manager, now, pc, frame, files, disk, csv>>

\* max_retries and the initial retry_delay of GeminiClient.send_message.
max_retries == 3
retry_delay == 2

\* The locals of send_message after the user message is appended. The Gemini
\* client with an image enters its download loop with contents not yet bound;
\* every other call goes to the vendor with the prompt (or the history).
send_frame(client, prompt, image_url, conversation_id) ==
    [client |-> client,
     conversation_id |-> conversation_id,
     prompt |-> prompt,
     image_url |-> image_url,
     model_name |-> client_model(client, image_url),
     attempt |-> 0,
     retry_delay |-> retry_delay,
     slept |-> <<>>,
     contents |-> IF client = "gemini" /\ image_url # None THEN None
                  ELSE Some(<<prompt>>)]

\* Where send_message goes after the user message.
send_pc(client, image_url) ==
    IF client = "gemini" /\ image_url # None THEN "download" ELSE "vendor"

\* send_message up to the vendor call: get or create the conversation and
\* append the user message.
send_begin(mgr, client, prompt, image_url, conversation_id) ==
    [mgr EXCEPT !.conversations[conversation_id] =
        Conversation_add_message(@,
            Message("user", user_content(client, prompt, image_url), None))]

SendResume(client, prompt, image_url, conversation_id) ==
    /\ Idle
    /\ get_conversation(conversation_manager, conversation_id) # None
    /\ count_messages(conversation_manager,
                      conversation_manager.conversation_keys) + 2 <= 2 * MaxTurns
    /\ conversation_manager' =
           send_begin(conversation_manager, client, prompt, image_url,
                      conversation_id)
    /\ pc' = send_pc(client, image_url)
    /\ frame' = send_frame(client, prompt, image_url, conversation_id)
    /\ UNCHANGED <<now, lastCall, files, disk, csv>>

SendNew(client, prompt, image_url) ==
    /\ Idle
    /\ Len(conversation_manager.conversation_keys) < MaxConvs
    /\ count_messages(conversation_manager,
                      conversation_manager.conversation_keys) + 2 <= 2 * MaxTurns
    /\ \E conv_id \in uuid4(conversation_manager) :
           /\ conversation_manager' =
                  send_begin(start_conversation(conversation_manager, client,
                                 client_model(client, image_url), conv_id),
                             client, prompt, image_url, conv_id)
           /\ frame' = send_frame(client, prompt, image_url, conv_id)
    /\ pc' = send_pc(client, image_url)
    /\ UNCHANGED <<now, lastCall, files, disk, csv>>

\* One attempt of the download loop succeeds: contents = [prompt, img]; break.
DownloadOk ==
    /\ pc = "download"
    /\ frame' = [frame EXCEPT !.contents = Some(<<frame.prompt, "img">>)]
    /\ pc' = "vendor"
    /\ UNCHANGED <<conversation_manager, now, lastCall, files, disk, csv>>

\* Mutant: the delay is not doubled after a failed attempt.
DownloadFail_fixed_delay ==
    /\ pc = "download"
    /\ IF frame.attempt < max_retries - 1
       THEN /\ frame' = [frame EXCEPT !.attempt = @ + 1,
                                       !.slept = Append(@, frame.retry_delay)]
            /\ pc' = "download"
       ELSE /\ frame' = [frame EXCEPT !.model_name = client_model("gemini", None),
                                       !.contents = Some(<<frame.prompt>>)]
            /\ pc' = "vendor"
    /\ UNCHANGED <<conversation_manager, now, lastCall, files, disk, csv>>

\* One attempt of the download loop raises: sleep retry_delay and double it
\* when attempts remain, otherwise fall back to the text model and the prompt
\* alone; range(max_retries) is then exhausted.
DownloadFail ==
    /\ pc = "download"
    /\ IF frame.attempt < max_retries - 1
       THEN /\ frame' = [frame EXCEPT !.attempt = @ + 1,
                                       !.slept = Append(@, frame.retry_delay),
                                       !.retry_delay = @ * 2]
            /\ pc' = "download"
       ELSE /\ frame' = [frame EXCEPT !.model_name = client_model("gemini", None),
                                       !.contents = Some(<<frame.prompt>>)]
            /\ pc' = "vendor"
    /\ UNCHANGED <<conversation_manager, now, lastCall, files, disk, csv>>

\* The vendor call returns: append the assistant message, return the
\* response and the conversation's identifier.
vendor_ok(mgr, conversation_id, response) ==
    [mgr EXCEPT !.conversations[conversation_id] =
        Conversation_add_message(@,
            Message("assistant", Text(response), Some(now)))]

VendorOk(response) ==
    /\ pc = "vendor"
    /\ conversation_manager' =
           vendor_ok(conversation_manager, frame.conversation_id, response)
    /\ Returned("send_message", <<Some(response), Some(frame.conversation_id)>>)
    /\ pc' = "idle"
    /\ frame' = None
    /\ UNCHANGED <<now, files, disk, csv>>

\* Mutant: the except clause keeps the conversation identifier it has.
VendorFail_keeps_id ==
    /\ pc = "vendor"
    /\ Returned("send_message", <<None, Some(frame.conversation_id)>>)
    /\ pc' = "idle"
    /\ frame' = None
    /\ UNCHANGED <<conversation_manager, now, files, disk, csv>>

\* The vendor call (or, for Gemini, anything after the user message) raises.
VendorFail ==
    /\ pc = "vendor"
    /\ Returned("send_message", <<None, None>>)
    /\ pc' = "idle"
    /\ frame' = None
    /\ UNCHANGED <<conversation_manager, now, files, disk, csv>>

Next ==
    \/ \E api_name \in ApiNames, model \in Models :
           StartConversationCall(api_name, model)
    \/ \E conv_id \in AnyIds, m \in MessageArgs :
           AddMessageCall(conv_id, m[1], m[2], m[3])
    \/ \E conv_id \in AnyIds : EndConversationCall(conv_id)
    \/ \E conv_id \in AnyIds : CalculateMetricsCall(conv_id)
    \/ SaveBegin
    \/ SaveConversation
    \/ SaveSummary
    \/ Tick

Spec == Init /\ [][Next]_vars

\* What the orchestration functions do with a conversation once its turns
\* are over: conversation.end_conversation(); conversation.calculate_metrics().
finish_conversation(conv) ==
    calculate_metrics(Conversation_end_conversation(conv))

FinishConversation(conv_id) ==
    /\ Idle
    /\ conv_id \in DOMAIN conversation_manager.conversations
    /\ LET conv == finish_conversation(conversation_manager.conversations[conv_id])
       IN  /\ conversation_manager' =
                  [conversation_manager EXCEPT !.conversations[conv_id] = conv]
           /\ Returned("finish_conversation", conv.metrics[1])
    /\ UNCHANGED <<now, pc, frame, files, disk, csv>>

\* The program as the orchestration functions run it: messages enter the
\* store through the adapters only.
NextAdapters ==
    \/ \E client \in Clients : SendSetupFail(client)
    \/ \E client \in Clients, conversation_id \in AnyIds :
           SendUnknown(client, conversation_id)
    \/ \E client \in Clients, prompt \in Prompts, image_url \in Images,
          conversation_id \in AnyIds :
           SendResume(client, prompt, image_url, conversation_id)
    \/ \E client \in Clients, prompt \in Prompts, image_url \in Images :
           SendNew(client, prompt, image_url)
    \/ DownloadOk
    \/ DownloadFail
    \/ \E response \in Responses : VendorOk(response)
    \/ VendorFail
    \/ \E conv_id \in AnyIds : FinishConversation(conv_id)
    \/ Tick

SpecAdapters == Init /\ [][NextAdapters]_vars

----------------------------------------------------------------------------
(* The metrics of one conversation with an arbitrary message list *)

RoleStamps == Roles \X (1..MaxStamp)

RECURSIVE SeqsUpTo(_, _)
SeqsUpTo(S, n) ==
    IF n = 0 THEN {<<>>}
    ELSE LET shorter == SeqsUpTo(S, n - 1)
         IN  shorter \cup {Append(q, x) : q \in {r \in shorter : Len(r) = n - 1},
                                          x \in S}

AssistantContents == {Text(hello), StructuredContent(hello_bang, ImageUrl)}

\* The store after start_conversation and the add_message calls that build
\* the message list; the assistant's content has one of its two shapes.
InitMetrics ==
    /\ \E rs \in SeqsUpTo(RoleStamps, MaxLen), shape \in AssistantContents :
           conversation_manager =
               [conversations |->
                    (1 :> [id |-> 1, api_name |-> "openai",
                           messages |->
                               [i \in 1..Len(rs) |->
                                    [role |-> rs[i][1],
                                     content |-> IF rs[i][1] = "assistant"
                                                 THEN shape ELSE Text(hi),
                                     timestamp |-> rs[i][2]]],
                           model |-> "gpt-4.1", start_time |-> 1,
                           end_time |-> None, metrics |-> None]),
                conversation_keys |-> <<1>>,
                current_conversation_ids |->
                    [b \in Backends |-> IF b = "openai" THEN Some(1) ELSE None]]
    /\ now = 1
    /\ pc = "idle"
    /\ frame = None
    /\ lastCall = [op |-> "add_message", ret |-> ("add_message" :> TRUE)]
    /\ files = {}
    /\ disk = <<>>
    /\ csv = None

NextMetrics ==
    \/ \E conv_id \in AnyIds : EndConversationCall(conv_id)
    \/ \E conv_id \in AnyIds : CalculateMetricsCall(conv_id)
    \/ Tick

SpecMetrics == InitMetrics /\ [][NextMetrics]_vars

----------------------------------------------------------------------------
(* The evaluator: src/aims/evaluation.py *)

\* 1.0 in the unit of the scores: a float score x is the integer
\* floor(x * 10000), and a product of two scores is in units of 1/10000^2.
One == 10000

Min(a, b) == IF a < b THEN a ELSE b
Max(a, b) == IF a > b THEN a ELSE b

\* The largest r with r * r <= n, found by bisection between low and high.
RECURSIVE isqrt_between(_, _, _)
isqrt_between(n, low, high) ==
    IF low >= high THEN low
    ELSE LET mid == (low + high + 1) \div 2
         IN  IF mid * mid <= n THEN isqrt_between(n, mid, high)
             ELSE isqrt_between(n, low, mid - 1)

Isqrt(n) == isqrt_between(n, 0, Min(n, 46340))

\* str.lower() on the letters the texts of the model use.
lower_char(c) ==
    CASE c = "H" -> "h"
      [] c = "I" -> "i"
      [] OTHER -> c

lower(text) == [i \in 1..Len(text) |-> lower_char(text[i])]

\* phrase in text
contains(text, phrase) ==
    \E i \in 1..(Len(text) - Len(phrase) + 1) :
        \A k \in 1..Len(phrase) : text[i + k - 1] = phrase[k]

\* sum(phrase in text for phrase in phrases)
count_in(text, phrases) ==
    LET t == text
    IN  Cardinality({k \in 1..Len(phrases) : contains(t, phrases[k])})

\* set(list)
set_of(list) ==
    LET l == list
    IN  {l[i] : i \in 1..Len(l)}

\* sep.join(list)
RECURSIVE join(_, _)
join(sep, list) ==
    IF list = <<>> THEN <<>>
    ELSE IF Len(list) = 1 THEN list[1]
    ELSE list[1] \o sep \o join(sep, Tail(list))

\* The marks _tokenize replaces by a space, and the whitespace split() cuts at.
TokenMarks == {"fwcomma", "fwstop", "fwexcl", "fwquestion", "dunhao"}
Whitespace == {" ", "LF"}
TokenSeparators == Whitespace \cup TokenMarks

is_space(c) == c \in TokenSeparators

token_starts(text) ==
    {i \in 1..Len(text) : /\ ~is_space(text[i])
                          /\ (i = 1 \/ is_space(text[i - 1]))}

token_end(text, i) ==
    CHOOSE j \in i..Len(text) :
        /\ (j = Len(text) \/ is_space(text[j + 1]))
        /\ \A k \in i..j : ~is_space(text[k])

\* The n-th smallest element of a set of integers.
nth_of(S, n) == CHOOSE i \in S : Cardinality({j \in S : j < i}) = n - 1

\* ConversationEvaluator._tokenize
tokenize(text) ==
    LET starts == token_starts(text)
    IN  [n \in 1..Cardinality(starts) |->
             LET i == nth_of(starts, n)
             IN  SubSeq(text, i, token_end(text, i))]

\* len(text.split("\n\n")): one more than the number of separators found
\* scanning from the left, so a run of r newlines holds r \div 2 of them.
split_paragraphs_count(text) ==
    LET run_start(i) ==
            CHOOSE j \in 1..i :
                /\ \A k \in j..i : text[k] = "LF"
                /\ (j = 1 \/ text[j - 1] # "LF")
    IN  1 + Cardinality({i \in 1..(Len(text) - 1) :
                             /\ text[i] = "LF"
                             /\ text[i + 1] = "LF"
                             /\ (i - run_start(i)) % 2 = 0})

\* The marks that end a sentence once the replace calls of
\* _evaluate_creativity have run.
SentenceMarks == {"fwstop", "fwexcl", "fwquestion"}

\* [len(s) for s in sentences]: the pieces between sentence marks, stripped
\* of surrounding whitespace, the empty ones dropped.
sentence_lengths(text) ==
    LET n == Len(text)
        cuts == {0} \cup {i \in 1..n : text[i] \in SentenceMarks}
        next(b) == IF \E c \in cuts : c > b
                   THEN CHOOSE c \in cuts : c > b /\ \A d \in cuts : d > b => c <= d
                   ELSE n + 1
        kept == {b \in cuts : \E i \in (b + 1)..(next(b) - 1) :
                                  text[i] \notin Whitespace}
        first(b) == CHOOSE i \in (b + 1)..(next(b) - 1) :
                        /\ text[i] \notin Whitespace
                        /\ \A j \in (b + 1)..(i - 1) : text[j] \in Whitespace
        last(b) == CHOOSE i \in (b + 1)..(next(b) - 1) :
                       /\ text[i] \notin Whitespace
                       /\ \A j \in (i + 1)..(next(b) - 1) : text[j] \in Whitespace
    IN  [k \in 1..Cardinality(kept) |->
             LET b == nth_of(kept, k)
             IN  last(b) - first(b) + 1]

\* The phrase lists of the heuristics.
uncertainty_phrases ==
    << <<"wo", "bu", "que", "ding">>, <<"ke", "neng">>, <<"ye", "xu">>,
       <<"wo", "cai">>, <<"bu", "tai", "qing", "chu">>,
       <<"bu", "tai", "que", "ding">> >>

fact_indicators ==
    << <<"shi4", "shi2", "shang">>, <<"yan", "jiu1", "biao", "ming">>,
       <<"shu", "ju4", "xian3", "shi4b">>, <<"gen", "ju4">>,
       <<"zheng", "ming">>, <<"zheng", "shi2">> >>

structure_indicators ==
    << <<"fwcolon">>, <<":">>, <<"LF", "-">>, <<"LF", "bullet">>,
       <<"LF", "*">>, <<"LF", "1", ".">>, <<"shou", "xian1">>,
       <<"qi", "ci4">>, <<"zui", "hou">>, <<"zong", "jie">> >>

connectors ==
    << <<"yin", "ci3">>, <<"suo", "yi3">>, <<"ran", "er">>,
       <<"dan", "shi4c">>, <<"ci3", "wai">>, <<"ling", "wai">>,
       <<"zong", "zhi">>, <<"shou", "xian1">>, <<"qi", "ci4">>,
       <<"zui", "hou">> >>

rhetoric_phrases ==
    << <<"jiu4", "xiang4a">>, <<"lei", "si", "yu">>,
       <<"ke", "yi3", "bi", "zuo">>, <<"xiang3", "xiang4b">>,
       <<"bi", "ru", "shuo">>, <<"xing", "xiang4b", "di", "shuo">> >>

\* Mutant: a reply is short when it has fewer than 200 characters.
evaluate_relevance_short_200(prompt, response) ==
    LET prompt_words == set_of(tokenize(lower(prompt)))
        response_words == set_of(tokenize(lower(response)))
        overlap == (Cardinality(prompt_words \cap response_words) * One)
                       \div Max(1, Cardinality(prompt_words))
        length_factor ==
            (Min(One, (Len(response) * One) \div 200)
                 * Min(One, (5000 * One) \div Max(1, Len(response)))) \div One
        score == 7000 + (3 * ((overlap * length_factor) \div One)) \div 10
    IN  Min(One, Max(0, score))

evaluate_relevance(prompt, response) ==
    LET prompt_words == set_of(tokenize(lower(prompt)))
        response_words == set_of(tokenize(lower(response)))
        overlap == (Cardinality(prompt_words \cap response_words) * One)
                       \div Max(1, Cardinality(prompt_words))
        length_factor ==
            (Min(One, (Len(response) * One) \div 1000)
                 * Min(One, (5000 * One) \div Max(1, Len(response)))) \div One
        score == 7000 + (3 * ((overlap * length_factor) \div One)) \div 10
    IN  Min(One, Max(0, score))

evaluate_accuracy(prompt, response) ==
    LET uncertainty_count == count_in(lower(response), uncertainty_phrases)
        fact_count == count_in(lower(response), fact_indicators)
        base_score == 8000
        score == base_score - uncertainty_count * 500 + fact_count * 300
    IN  Min(One, Max(5000, score))

evaluate_completeness(prompt, response) ==
    LET length_score == Min(One, (Len(response) * One) \div 500)
        has_structure ==
            \E k \in 1..Len(structure_indicators) :
                contains(response, structure_indicators[k])
        structure_score == IF has_structure THEN 2000 ELSE 0
        score == (7 * length_score) \div 10 + 3000 + structure_score
    IN  Min(One, score)

evaluate_coherence(prompt, response, context) ==
    LET base_score == 8000
        paragraph_score ==
            Min(One, (split_paragraphs_count(response) * One) \div 3) \div 10
        connector_count == count_in(lower(response), connectors)
        connector_score == Min(1000, connector_count * 200)
        context_score ==
            IF context = <<>> THEN 0
            ELSE LET prev_responses ==
                         join(<<" ">>, [i \in 1..Len(context) |->
                                            context[i].response])
                     prev_prompts ==
                         join(<<" ">>, [i \in 1..Len(context) |->
                                            context[i].prompt])
                     prev_words ==
                         set_of(tokenize(lower(prev_responses \o <<" ">>
                                                   \o prev_prompts)))
                     response_words == set_of(tokenize(lower(response)))
                     context_overlap ==
                         (Cardinality(prev_words \cap response_words) * One)
                             \div Max(1, Cardinality(response_words))
                 IN  context_overlap \div 10
        score == base_score + paragraph_score + connector_score + context_score
    IN  Min(One, score)

\* np.std(lengths) / max(1, np.mean(lengths)), in units of 1/10000: for n
\* lengths with sum S and sum of squares Q it is sqrt(n*Q - S*S) / max(n, S).
sentence_diversity(lengths) ==
    IF Len(lengths) = 0 THEN 0
    ELSE (Isqrt((Len(lengths) * SumSeq([k \in 1..Len(lengths) |->
                                            lengths[k] * lengths[k]])
                     - SumSeq(lengths) * SumSeq(lengths)) * 100) * 1000)
             \div Max(Len(lengths), SumSeq(lengths))

\* len(unique_words) / max(1, len(words))
vocabulary_diversity(words) ==
    (Cardinality(set_of(words)) * One) \div Max(1, Len(words))

evaluate_creativity(response) ==
    LET rhetoric_count == count_in(lower(response), rhetoric_phrases)
        base_score == 7000
        rhetoric_score == Min(1000, rhetoric_count * 300)
        diversity_score == vocabulary_diversity(tokenize(lower(response))) \div 10
        sentence_score ==
            Min(1000, sentence_diversity(sentence_lengths(response)) \div 2)
        score == base_score + rhetoric_score + diversity_score + sentence_score
    IN  Min(One, Max(5000, score))

\* EVALUATION_DIMENSIONS: the weight of each dimension.
EVALUATION_DIMENSIONS ==
    [relevance |-> [weight |-> 2500],
     accuracy |-> [weight |-> 2500],
     completeness |-> [weight |-> 2000],
     coherence |-> [weight |-> 1500],
     creativity |-> [weight |-> 1500]]

\* The keys of the scores dict in the order evaluate_response fills it.
DimensionNames ==
    <<"relevance", "accuracy", "completeness", "coherence", "creativity">>

\* ConversationEvaluator(): dimensions or EVALUATION_DIMENSIONS.
ConversationEvaluator_init == [dimensions |-> EVALUATION_DIMENSIONS]

\* Mutant: the creativity term is left out of the total.
score_entries_four_terms(self, scores) ==
    [dimensions |->
         [dim \in DOMAIN scores |->
              [score |-> scores[dim],
               weight |-> self.dimensions[dim].weight]],
     total_score |->
         SumSeq([k \in 1..4 |->
                     scores[DimensionNames[k]]
                         * self.dimensions[DimensionNames[k]].weight])]

\* The loop of evaluate_response over the scores dict: each dimension's
\* entry, and the sum of score * weight (in units of 1/10000^2).
score_entries(self, scores) ==
    [dimensions |->
         [dim \in DOMAIN scores |->
              [score |-> scores[dim],
               weight |-> self.dimensions[dim].weight]],
     total_score |->
         SumSeq([k \in 1..Len(DimensionNames) |->
                     scores[DimensionNames[k]]
                         * self.dimensions[DimensionNames[k]].weight])]

evaluate_response(self, prompt, response, context) ==
    score_entries(self,
        [relevance |-> evaluate_relevance(prompt, response),
         accuracy |-> evaluate_accuracy(prompt, response),
         completeness |-> evaluate_completeness(prompt, response),
         coherence |-> evaluate_coherence(prompt, response, context),
         creativity |-> evaluate_creativity(response)])

\* The text evaluate_conversation scores for a prompt: the content itself, or
\* the text parts of a structured content joined by spaces.
prompt_text(content) ==
    IF content.kind = "text" THEN content.text
    ELSE IF content.kind = "parts"
    THEN LET with_text == SelectSeq(content.parts,
                                    LAMBDA item : "text" \in DOMAIN item)
         IN  join(<<" ">>, [k \in 1..Len(with_text) |-> with_text[k].text])
    ELSE IF "text" \in DOMAIN content.dict THEN content.dict.text
    ELSE <<"{", "}">>

\* Mutant: the context of a turn is the pair before it alone.
RECURSIVE turn_scores_from_latest_pair(_, _, _, _)
turn_scores_from_latest_pair(self, messages, i, context) ==
    IF i + 1 > Len(messages) THEN <<>>
    ELSE LET prompt == prompt_text(messages[i].content)
             response == messages[i + 1].content.text
         IN  <<evaluate_response(self, prompt, response, context)>>
                 \o turn_scores_from_latest_pair(self, messages, i + 2,
                        <<[prompt |-> prompt, response |-> response]>>)

\* The loop of evaluate_conversation from (1-based) position i on: one score
\* per complete pair, the context growing by each pair.
RECURSIVE turn_scores_from(_, _, _, _)
turn_scores_from(self, messages, i, context) ==
    IF i + 1 > Len(messages) THEN <<>>
    ELSE LET prompt == prompt_text(messages[i].content)
             response == messages[i + 1].content.text
         IN  <<evaluate_response(self, prompt, response, context)>>
                 \o turn_scores_from(self, messages, i + 2,
                        Append(context, [prompt |-> prompt,
                                         response |-> response]))

\* The end of evaluate_conversation: the error marker when no pair was
\* scored, else the turn scores with their means.
conversation_scores(self, turn_scores) ==
    IF Len(turn_scores) = 0 THEN [error |-> "No valid turns to evaluate"]
    ELSE [turn_scores |-> turn_scores,
          average_score |->
              SumSeq([k \in 1..Len(turn_scores) |-> turn_scores[k].total_score])
                  \div Len(turn_scores),
          average_dimensions |->
              [dim \in DOMAIN self.dimensions |->
                   SumSeq([k \in 1..Len(turn_scores) |->
                               turn_scores[k].dimensions[dim].score])
                       \div Len(turn_scores)]]

\* Mutant: a trailing message without a partner is scored against itself.
evaluate_conversation_pads(self, conversation) ==
    conversation_scores(self,
        turn_scores_from(self,
            IF Len(conversation.messages) % 2 = 1
            THEN Append(conversation.messages,
                        [conversation.messages[Len(conversation.messages)]
                             EXCEPT !.content = Text(prompt_text(@))])
            ELSE conversation.messages,
            1, <<>>))

\* ConversationEvaluator.evaluate_conversation. A response that is not a str
\* makes response.lower() raise AttributeError.
evaluate_conversation(self, conversation) ==
    IF \E i \in 1..Len(conversation.messages) :
           i % 2 = 0 /\ conversation.messages[i].content.kind # "text"
    THEN [raised |-> "AttributeError"]
    ELSE conversation_scores(self,
             turn_scores_from(self, conversation.messages, 1, <<>>))

----------------------------------------------------------------------------
(* The evaluator applied to one saved conversation *)

\* Sample texts: a prompt, a short structured reply with one phrase of each
\* list, two sentence marks and three paragraphs, and a reply with enough
\* connectors for the terms of the coherence score to add up to more than 1.
greet == <<"H", "i", " ", "t", "h", "e", "r", "e">>

rich ==
    <<"H", "i", ":", " ", "ke", "neng", "fwstop", "gen", "ju4", "fwexcl",
      "LF", "LF", "shou", "xian1", " ", "jiu4", "xiang4a", " ",
      "t", "h", "e", "r", "e", "LF", "LF", "zui", "hou">>

essay ==
    rich \o <<" ", "yin", "ci3", " ", "suo", "yi3", "fwstop", "ran", "er">>

\* A reply of n characters: the word "there" and one long word.
long_reply(n) ==
    [i \in 1..n |-> IF i <= 5 THEN <<"t", "h", "e", "r", "e">>[i]
                    ELSE IF i = 6 THEN " " ELSE "x"]

EvalPrompts == {Text(greet), StructuredContent(greet, ImageUrl)}
EvalResponses == {hello, rich, essay}

\* Conversations a caller of the evaluator can pass that no adapter writes:
\* the prompt is a dict, or the reply is a list of parts.
GivenConversations ==
    { [messages |-> << [role |-> "user",
                        content |-> Dict([type |-> "text", text |-> greet]),
                        timestamp |-> 1],
                       [role |-> "assistant", content |-> Text(rich),
                        timestamp |-> 1] >>],
      [messages |-> << [role |-> "user", content |-> Dict(<<>>),
                        timestamp |-> 1],
                       [role |-> "assistant", content |-> Text(hello),
                        timestamp |-> 1] >>],
      [messages |-> << [role |-> "user", content |-> Text(greet),
                        timestamp |-> 1],
                       [role |-> "assistant",
                        content |-> Parts(<<[type |-> "text", text |-> rich]>>),
                        timestamp |-> 1] >>],
      [messages |-> << [role |-> "user", content |-> Text(greet),
                        timestamp |-> 1],
                       [role |-> "assistant", content |-> Text(rich),
                        timestamp |-> 1],
                       [role |-> "user",
                        content |-> StructuredContent(hi, ImageUrl),
                        timestamp |-> 1],
                       [role |-> "assistant", content |-> Text(hello),
                        timestamp |-> 1],
                       [role |-> "user", content |-> Text(greet),
                        timestamp |-> 1],
                       [role |-> "assistant", content |-> Text(rich),
                        timestamp |-> 1] >>] }
EvalReplies == {hello, rich}
EvalContexts == {<<>>, <<[prompt |-> greet, response |-> rich]>>}

\* The messages of a conversation as the adapters leave them: user and
\* assistant alternate, the assistant's content is a str, and a failed
\* vendor call leaves a last user message without a reply.
EvalMessages(n) ==
    {msgs \in [1..n -> [role : {"user", "assistant"},
                        content : EvalPrompts \cup {Text(r) : r \in EvalReplies},
                        timestamp : {1}]] :
         \A i \in 1..n :
             IF i % 2 = 1
             THEN msgs[i].role = "user" /\ msgs[i].content \in EvalPrompts
             ELSE /\ msgs[i].role = "assistant"
                  /\ msgs[i].content \in {Text(r) : r \in EvalReplies}}

\* The run has ended the conversation and computed its metrics;
\* evaluate_api_responses creates its evaluator; no conversation is loaded.
InitEval ==
    /\ now = 1
    /\ \E n \in 0..MaxLen : \E msgs \in EvalMessages(n) :
           conversation_manager =
               [conversations |->
                    (1 :> finish_conversation(
                              [id |-> 1, api_name |-> "openai",
                               messages |-> msgs,
                               model |-> "gpt-4.1", start_time |-> 1,
                               end_time |-> None, metrics |-> None])),
                conversation_keys |-> <<1>>,
                current_conversation_ids |->
                    [b \in Backends |-> IF b = "openai" THEN Some(1) ELSE None]]
    /\ pc = "idle"
    /\ frame = [evaluator |-> ConversationEvaluator_init, conversation |-> None]
    /\ lastCall = [op |-> "none", ret |-> ("none" :> None)]
    /\ files = {}
    /\ disk = <<>>
    /\ csv = None

\* conversation.save_to_file()
SaveToFile(conv_id) ==
    /\ Idle
    /\ conv_id \in DOMAIN conversation_manager.conversations
    /\ LET conv == conversation_manager.conversations[conv_id]
       IN  /\ disk' = save_to_file(disk, conv)
           /\ files' = files \cup {file_name(conv)}
           /\ Returned("save_to_file", file_name(conv))
    /\ UNCHANGED <<conversation_manager, now, pc, frame, csv>>

\* evaluate_api_responses reads a conversation file into a SimpleConversation.
LoadConversation(name) ==
    /\ Idle
    /\ name \in DOMAIN disk
    /\ frame' = [frame EXCEPT !.conversation = Some(SimpleConversation(disk[name]))]
    /\ Returned("SimpleConversation", name)
    /\ UNCHANGED <<conversation_manager, now, pc, files, disk, csv>>

\* evaluator.evaluate_conversation(conversation) on the loaded conversation,
\* whose messages are dicts.
EvaluateLoaded ==
    /\ Idle
    /\ frame.conversation # None
    /\ Returned("evaluate_conversation",
                evaluate_conversation(frame.evaluator, frame.conversation[1]))
    /\ UNCHANGED <<conversation_manager, now, pc, frame, files, disk, csv>>

\* evaluator.evaluate_conversation on a Conversation of the store, whose
\* messages are Message objects.
EvaluateStored(conv_id) ==
    /\ Idle
    /\ conv_id \in DOMAIN conversation_manager.conversations
    /\ Returned("evaluate_conversation",
                evaluate_conversation(frame.evaluator,
                    conversation_manager.conversations[conv_id]))
    /\ UNCHANGED <<conversation_manager, now, pc, frame, files, disk, csv>>

\* evaluator.evaluate_conversation on a conversation the caller built.
EvaluateGiven(conversation) ==
    /\ Idle
    /\ Returned("evaluate_given",
                [conversation |-> conversation,
                 value |-> evaluate_conversation(frame.evaluator, conversation)])
    /\ UNCHANGED <<conversation_manager, now, pc, frame, files, disk, csv>>

\* Mutant: the weights are normalised in place after each evaluation.
EvaluateResponse_rescales(prompt, response, context) ==
    /\ Idle
    /\ Returned("evaluate_response",
                [prompt |-> prompt, response |-> response, context |-> context,
                 value |-> evaluate_response(frame.evaluator, prompt, response,
                                             context)])
    /\ frame' = [frame EXCEPT !.evaluator.dimensions =
                     [dim \in DOMAIN @ |-> [weight |-> @[dim].weight \div 2]]]
    /\ UNCHANGED <<conversation_manager, now, pc, files, disk, csv>>

\* evaluator.evaluate_response(prompt, response, context)
EvaluateResponse(prompt, response, context) ==
    /\ Idle
    /\ Returned("evaluate_response",
                [prompt |-> prompt, response |-> response, context |-> context,
                 value |-> evaluate_response(frame.evaluator, prompt, response,
                                             context)])
    /\ UNCHANGED <<conversation_manager, now, pc, frame, files, disk, csv>>

NextEval ==
    \/ \E conv_id \in ConvIds : SaveToFile(conv_id)
    \/ \E name \in DOMAIN disk : LoadConversation(name)
    \/ EvaluateLoaded
    \/ \E conv_id \in ConvIds : EvaluateStored(conv_id)
    \/ \E prompt \in {greet}, response \in EvalResponses, context \in EvalContexts :
           EvaluateResponse(prompt, response, context)
    \/ \E conversation \in GivenConversations : EvaluateGiven(conversation)

SpecEval == InitEval /\ [][NextEval]_vars

----------------------------------------------------------------------------
(* The relevance score of one prompt and response *)

\* The number of lengths on each side of a threshold of the length factor.
MaxAround == 2

\* Lengths of replies on both sides of 200, 1000 and 5000 characters, and
\* far from them.
RelevanceLengths ==
    {6, 50, 300, 500, 3000, 6000}
        \cup UNION {(t - MaxAround)..(t + MaxAround) : t \in {200, 1000, 5000}}

\* Prompts all of whose words, one of whose two words and none of whose
\* words occur in the replies.
there == <<"t", "h", "e", "r", "e">>
RelevancePrompts == {there, greet, hi}

\* _evaluate_relevance has been called with a prompt and a response.
InitRelevance ==
    /\ conversation_manager = ConversationManager_init
    /\ now = 1
    /\ pc = "relevance"
    /\ \E prompt \in RelevancePrompts, n \in RelevanceLengths :
           frame = [prompt |-> prompt, response |-> long_reply(n)]
    /\ lastCall = [op |-> "none", ret |-> ("none" :> None)]
    /\ files = {}
    /\ disk = <<>>
    /\ csv = None

\* evaluator._evaluate_relevance(prompt, response) returns.
EvaluateRelevance ==
    /\ pc = "relevance"
    /\ Returned("evaluate_relevance",
                evaluate_relevance(frame.prompt, frame.response))
    /\ pc' = "idle"
    /\ UNCHANGED <<conversation_manager, now, frame, files, disk, csv>>

NextRelevance == EvaluateRelevance

SpecRelevance == InitRelevance /\ [][NextRelevance]_vars

----------------------------------------------------------------------------
(* A multi-turn run and its evaluation: src/aims/testing.py *)

\* The number of conversation files the environment removes or damages
\* between the save and the evaluation of one run.
MaxLost == 1

\* The flows of a run: one of two turns, the first with an image, and one of
\* a single turn.
FlowA ==
    [name |-> "A",
     turns |-> << [prompt |-> greet, image_url |-> Some(ImageUrl)],
                  [prompt |-> hi, image_url |-> None] >>]

FlowB ==
    [name |-> "B", turns |-> << [prompt |-> greet, image_url |-> None] >>]

RunFlows == {<<FlowA>>, <<FlowA, FlowB>>}
RunApis == {<<"monica">>, <<"openai", "gemini">>}
RunResponses == {hello, rich}

\* uuid.uuid4() during a run: an identifier no conversation has.
fresh_uuid4(mgr) == Len(mgr.conversation_keys) + 1

\* The locals of multi_turn_test at the top of the turn loop of the first
\* backend of the first flow (indices count from 1), with the calls made and
\* returned so far and the number of files lost so far.
run_frame(flows, apis, evaluate) ==
    [flows |-> flows,
     apis |-> apis,
     evaluate |-> evaluate,
     i |-> 1,
     a |-> 1,
     j |-> 1,
     conversation_id |-> None,
     turn_results |-> <<>>,
     api_results |-> <<>>,
     results |-> <<>>,
     evaluation_results |-> None,
     events |-> <<>>,
     lost |-> 0]

run_api(fr) == fr.apis[fr.a]
run_turns(fr) == fr.flows[fr.i].turns
run_turn(fr) == run_turns(fr)[fr.j]

\* One entry of the log of calls: kind is "call" when send_message is
\* entered, and "response" or "none" for what it returns.
run_event(fr, kind) ==
    [kind |-> kind, flow |-> fr.i, api |-> run_api(fr), turn |-> fr.j]

\* Mutant: every call starts a conversation of its own.
run_send_begin_always_starts(mgr, client, prompt, image_url, conversation_id) ==
    [mgr |-> send_begin(
                 start_conversation(mgr, client,
                     client_model(client, image_url), fresh_uuid4(mgr)),
                 client, prompt, image_url, fresh_uuid4(mgr)),
     id |-> fresh_uuid4(mgr)]

\* send_message up to the vendor call, for a conversation_id that is None
\* (a conversation is started) or that of the backend's conversation.
run_send_begin(mgr, client, prompt, image_url, conversation_id) ==
    IF conversation_id = None
    THEN [mgr |-> send_begin(
                      start_conversation(mgr, client,
                          client_model(client, image_url), fresh_uuid4(mgr)),
                      client, prompt, image_url, fresh_uuid4(mgr)),
          id |-> fresh_uuid4(mgr)]
    ELSE [mgr |-> send_begin(mgr, client, prompt, image_url, conversation_id[1]),
          id |-> conversation_id[1]]

\* Mutant: a failed call leaves the loop's conversation_id as it was.
turn_returns_keeps_id(fr, result, conversation_id) ==
    IF result = None
    THEN [frame |-> [fr EXCEPT !.events = Append(@, run_event(fr, "none"))],
          pc |-> "run_api_end"]
    ELSE [frame |->
              [fr EXCEPT !.conversation_id = conversation_id,
                         !.events = Append(@, run_event(fr, "response")),
                         !.turn_results =
                             Append(@, [prompt |-> run_turn(fr).prompt,
                                        response |-> result[1]]),
                         !.j = @ + 1],
          pc |-> IF fr.j + 1 > Len(run_turns(fr)) THEN "run_api_end"
                 ELSE "run_turn"]

\* Mutant: the turn loop goes on to the next turn after a failed call.
turn_returns_continues(fr, result, conversation_id) ==
    [frame |->
         [fr EXCEPT !.conversation_id = conversation_id,
                    !.events = Append(@, run_event(fr,
                                   IF result = None THEN "none" ELSE "response")),
                    !.turn_results =
                        IF result = None THEN @
                        ELSE Append(@, [prompt |-> run_turn(fr).prompt,
                                        response |-> result[1]]),
                    !.j = @ + 1],
     pc |-> IF fr.j + 1 > Len(run_turns(fr)) THEN "run_api_end" ELSE "run_turn"]

\* result, conversation_id = client.send_message(...) and the rest of the
\* body of the turn loop: break on None, else record the turn and go on to
\* the next one, if any. The locals and where control is afterwards.
turn_returns(fr, result, conversation_id) ==
    IF result = None
    THEN [frame |->
              [fr EXCEPT !.conversation_id = conversation_id,
                         !.events = Append(@, run_event(fr, "none"))],
          pc |-> "run_api_end"]
    ELSE [frame |->
              [fr EXCEPT !.conversation_id = conversation_id,
                         !.events = Append(@, run_event(fr, "response")),
                         !.turn_results =
                             Append(@, [prompt |-> run_turn(fr).prompt,
                                        response |-> result[1]]),
                         !.j = @ + 1],
          pc |-> IF fr.j + 1 > Len(run_turns(fr)) THEN "run_api_end"
                 ELSE "run_turn"]

\* The entry multi_turn_test records for a backend; the dict {} it records
\* as metrics when it finds no conversation is None here.
api_result(fr, metrics) ==
    [conversation_id |-> fr.conversation_id,
     turns |-> fr.turn_results,
     metrics |-> metrics]

\* The end of the body of the backend loop: record the backend's entry and
\* go to the next backend, the next flow, or the save.
api_ends(fr, metrics) ==
    LET api_results == dict_set(fr.api_results, run_api(fr),
                                api_result(fr, metrics))
    IN  IF fr.a < Len(fr.apis)
        THEN [fr EXCEPT !.api_results = api_results,
                        !.a = @ + 1, !.j = 1,
                        !.conversation_id = None,
                        !.turn_results = <<>>]
        ELSE [fr EXCEPT !.results =
                            Append(@, [name |-> fr.flows[fr.i].name,
                                       api_results |-> api_results]),
                        !.api_results = <<>>,
                        !.i = @ + 1, !.a = 1, !.j = 1,
                        !.conversation_id = None,
                        !.turn_results = <<>>]

api_end_pc(fr) ==
    IF fr.a < Len(fr.apis) \/ fr.i < Len(fr.flows) THEN "run_turn"
    ELSE "run_save"

\* The files save_all_conversations writes for the conversations keys.
RECURSIVE save_files(_, _, _)
save_files(d, conversations, keys) ==
    IF keys = <<>> THEN d
    ELSE save_files(save_to_file(d, conversations[keys[1]]), conversations,
                    Tail(keys))

\* ConversationManager.save_all_conversations as one call.
save_all_conversations(mgr) ==
    create_summary_csv(
        [mgr EXCEPT !.conversations =
             [k \in DOMAIN mgr.conversations |-> save_one(mgr.conversations[k])]])

\* What json.load raises on: a file that does not hold a JSON document.
Damaged == [json |-> "invalid"]

\* The except clause of the evaluation of one backend.
evaluation_or_error(evaluation) ==
    IF "raised" \in DOMAIN evaluation THEN [error |-> "Evaluation failed"]
    ELSE evaluation

\* The try block of evaluate_api_responses on the file that was found.
loaded_evaluation(self, document) ==
    IF document.json # "object" THEN [error |-> "Evaluation failed"]
    ELSE evaluation_or_error(
             evaluate_conversation(self, SimpleConversation(document)))

\* The body of the backend loop of evaluate_api_responses once the
\* conversation_id is known to be set: search the file, evaluate it.
api_evaluation(self, d, api_name, conversation_id) ==
    IF \E file \in DOMAIN d : file[2] = conversation_id /\ file[1] = api_name
    THEN loaded_evaluation(self,
             d[CHOOSE file \in DOMAIN d :
                   file[2] = conversation_id /\ file[1] = api_name])
    ELSE [error |-> "Conversation file not found"]

\* test_evaluation of one flow: a backend whose conversation_id is not set
\* is passed over by continue.
flow_evaluations(self, d, api_results) ==
    [api_name \in {x \in DOMAIN api_results :
                       api_results[x].conversation_id # None} |->
         api_evaluation(self, d, api_name,
                        api_results[api_name].conversation_id[1])]

\* api_overall_scores[api_name] before the mean: the average_score of each
\* flow in which the backend's entry has no "error" key.
RECURSIVE scores_of(_, _)
scores_of(evaluations, api_name) ==
    IF evaluations = <<>> THEN <<>>
    ELSE (IF /\ api_name \in DOMAIN evaluations[1]
             /\ "error" \notin DOMAIN evaluations[1][api_name]
          THEN <<evaluations[1][api_name].average_score>> ELSE <<>>)
             \o scores_of(Tail(evaluations), api_name)

\* sum(scores) / len(scores)
mean(scores) == SumSeq(scores) \div Len(scores)

\* Mutant: every backend with an entry gets a score, an error entry
\* counting as 0.
overall_scores_counts_errors(evaluations) ==
    [api_name \in UNION {DOMAIN evaluations[i] : i \in 1..Len(evaluations)} |->
         SumSeq(scores_of(evaluations, api_name))
             \div Cardinality({i \in 1..Len(evaluations) :
                                   api_name \in DOMAIN evaluations[i]})]

\* The two loops that compute api_overall_scores.
overall_scores(evaluations) ==
    [api_name \in {x \in UNION {DOMAIN evaluations[i] :
                                    i \in 1..Len(evaluations)} :
                       scores_of(evaluations, x) # <<>>} |->
         mean(scores_of(evaluations, api_name))]

\* evaluation_results["overall_scores"] = api_overall_scores
with_overall_scores(flows) ==
    [flows |-> flows,
     overall_scores |->
         overall_scores([i \in 1..Len(flows) |-> flows[i].api_evaluations])]

\* evaluate_api_responses on the results the run has just written, with the
\* conversation files d. The entry of flow i is under the key flow_i.
evaluate_api_responses(results, d) ==
    with_overall_scores(
        [i \in 1..Len(results) |->
             [name |-> results[i].name,
              api_evaluations |->
                  flow_evaluations(ConversationEvaluator_init, d,
                                   results[i].api_results)]])

\* multi_turn_test has been called with its flows and backends; the store is
\* empty and no file exists.
InitRun ==
    /\ conversation_manager = ConversationManager_init
    /\ now = 1
    /\ pc = "run_turn"
    /\ \E flows \in RunFlows, apis \in RunApis, evaluate \in BOOLEAN :
           frame = run_frame(flows, apis, evaluate)
    /\ lastCall = [op |-> "none", ret |-> ("none" :> None)]
    /\ files = {}
    /\ disk = <<>>
    /\ csv = None

\* The call of send_message for the current turn begins.
RunCall ==
    /\ pc = "run_turn"
    /\ frame' = [frame EXCEPT !.events = Append(@, run_event(frame, "call"))]
    /\ pc' = "run_call"
    /\ UNCHANGED <<conversation_manager, now, lastCall, files, disk, csv>>

\* send_message returns (None, None) because the client setup raised.
RunSetupFails ==
    /\ pc = "run_call"
    /\ frame' = turn_returns(frame, None, None).frame
    /\ pc' = turn_returns(frame, None, None).pc
    /\ Returned("send_message", <<None, None>>)
    /\ UNCHANGED <<conversation_manager, now, files, disk, csv>>

\* Mutant: the except clause undoes what the call did to the store.
RunVendorFails_rolls_back ==
    /\ pc = "run_call"
    /\ frame' = turn_returns(frame, None, None).frame
    /\ pc' = turn_returns(frame, None, None).pc
    /\ Returned("send_message", <<None, None>>)
    /\ UNCHANGED <<conversation_manager, now, files, disk, csv>>

\* send_message returns (None, None) because the vendor call raised after
\* the user message was appended.
RunVendorFails ==
    /\ pc = "run_call"
    /\ conversation_manager' =
           run_send_begin(conversation_manager, run_api(frame),
                          run_turn(frame).prompt, run_turn(frame).image_url,
                          frame.conversation_id).mgr
    /\ frame' = turn_returns(frame, None, None).frame
    /\ pc' = turn_returns(frame, None, None).pc
    /\ Returned("send_message", <<None, None>>)
    /\ UNCHANGED <<now, files, disk, csv>>

\* send_message returns the response and the conversation's identifier.
RunSendOk(response) ==
    /\ pc = "run_call"
    /\ LET begun == run_send_begin(conversation_manager, run_api(frame),
                        run_turn(frame).prompt, run_turn(frame).image_url,
                        frame.conversation_id)
       IN  /\ conversation_manager' = vendor_ok(begun.mgr, begun.id, response)
           /\ frame' = turn_returns(frame, Some(response), Some(begun.id)).frame
           /\ pc' = turn_returns(frame, Some(response), Some(begun.id)).pc
           /\ Returned("send_message", <<Some(response), Some(begun.id)>>)
    /\ UNCHANGED <<now, files, disk, csv>>

\* After the turn loop: the conversation, if get_conversation finds one, is
\* ended and measured, and the backend's entry is recorded.
RunApiEnd ==
    /\ pc = "run_api_end"
    /\ IF frame.conversation_id # None
          /\ get_conversation(conversation_manager, frame.conversation_id[1]) # None
       THEN LET conv == finish_conversation(
                            conversation_manager.conversations[
                                frame.conversation_id[1]])
            IN  /\ conversation_manager' =
                       [conversation_manager EXCEPT
                            !.conversations[frame.conversation_id[1]] = conv]
                /\ frame' = api_ends(frame, conv.metrics)
       ELSE /\ conversation_manager' = conversation_manager
            /\ frame' = api_ends(frame, None)
    /\ pc' = api_end_pc(frame)
    /\ UNCHANGED <<now, lastCall, files, disk, csv>>

\* conversation_manager.save_all_conversations() and the results file.
RunSave ==
    /\ pc = "run_save"
    /\ LET saved == save_all_conversations(conversation_manager)
       IN  /\ conversation_manager' = saved.mgr
           /\ csv' = Some(saved.rows)
           /\ disk' = save_files(disk, saved.mgr.conversations,
                                 saved.mgr.conversation_keys)
           /\ files' = files \cup
                  {file_name(saved.mgr.conversations[k]) :
                       k \in DOMAIN saved.mgr.conversations}
    /\ pc' = IF frame.evaluate THEN "run_evaluate" ELSE "run_return"
    /\ UNCHANGED <<now, frame, lastCall>>

\* The environment removes a conversation file before it is read.
RemoveFile(name) ==
    /\ pc = "run_evaluate"
    /\ frame.lost < MaxLost
    /\ name \in files
    /\ files' = files \ {name}
    /\ disk' = [x \in DOMAIN disk \ {name} |-> disk[x]]
    /\ frame' = [frame EXCEPT !.lost = @ + 1]
    /\ UNCHANGED <<conversation_manager, now, pc, lastCall, csv>>

\* The environment damages a conversation file before it is read.
DamageFile(name) ==
    /\ pc = "run_evaluate"
    /\ frame.lost < MaxLost
    /\ name \in files
    /\ disk' = [disk EXCEPT ![name] = Damaged]
    /\ frame' = [frame EXCEPT !.lost = @ + 1]
    /\ UNCHANGED <<conversation_manager, now, pc, lastCall, files, csv>>

\* evaluation_results = evaluate_api_responses(results_file)
RunEvaluate ==
    /\ pc = "run_evaluate"
    /\ frame' = [frame EXCEPT !.evaluation_results =
                     Some(evaluate_api_responses(frame.results, disk))]
    /\ pc' = "run_report"
    /\ UNCHANGED <<conversation_manager, now, lastCall, files, disk, csv>>

\* The overall scores are printed and max() picks the best backend: on an
\* empty overall_scores max() raises ValueError, which leaves multi_turn_test.
RunReport ==
    /\ pc = "run_report"
    /\ IF DOMAIN frame.evaluation_results[1].overall_scores = {}
       THEN /\ pc' = "idle"
            /\ Returned("multi_turn_test", [raised |-> "ValueError"])
       ELSE /\ pc' = "run_return"
            /\ UNCHANGED lastCall
    /\ UNCHANGED <<conversation_manager, now, frame, files, disk, csv>>

\* return results
RunReturn ==
    /\ pc = "run_return"
    /\ pc' = "idle"
    /\ Returned("multi_turn_test", [results |-> frame.results])
    /\ UNCHANGED <<conversation_manager, now, frame, files, disk, csv>>

NextRun ==
    \/ RunCall
    \/ RunSetupFails
    \/ RunVendorFails
    \/ \E response \in RunResponses : RunSendOk(response)
    \/ RunApiEnd
    \/ RunSave
    \/ \E name \in files : RemoveFile(name)
    \/ \E name \in files : DamageFile(name)
    \/ RunEvaluate
    \/ RunReport
    \/ RunReturn

SpecRun == InitRun /\ [][NextRun]_vars

----------------------------------------------------------------------------
(* The adapters as the orchestration functions call them: src/aims/testing.py *)

\* The conversation_id an orchestration function holds between two calls
\* of send_message: the one the last call returned. interactive_conversation
\* and multi_turn_test start from None, compare_apis passes none at all.
held_conversation_id ==
    IF lastCall.op = "send_message" THEN Result(lastCall)[2] ELSE None

\* Mutant: the next turn goes to the backend's current conversation.
DriverResume_current(client, prompt, image_url) ==
    /\ client \in DOMAIN conversation_manager.current_conversation_ids
    /\ conversation_manager.current_conversation_ids[client] # None
    /\ SendResume(client, prompt, image_url,
                  conversation_manager.current_conversation_ids[client][1])

\* The next turn of interactive_conversation or multi_turn_test: the same
\* backend's send_message with the identifier the turn before returned.
DriverResume(client, prompt, image_url) ==
    /\ held_conversation_id # None
    /\ get_conversation(conversation_manager, held_conversation_id[1]) # None
    /\ conversation_manager.conversations[held_conversation_id[1]].api_name
           = client
    /\ SendResume(client, prompt, image_url, held_conversation_id[1])

\* After the turns of interactive_conversation or of one backend of
\* multi_turn_test: the conversation of the held identifier, if there is
\* one, is ended and measured.
DriverFinish ==
    /\ held_conversation_id # None
    /\ FinishConversation(held_conversation_id[1])

\* conversation_manager.save_all_conversations() at the end of batch_test
\* and multi_turn_test.
DriverSave ==
    /\ Idle
    /\ conversation_manager.conversation_keys # <<>>
    /\ LET saved == save_all_conversations(conversation_manager)
       IN  /\ conversation_manager' = saved.mgr
           /\ csv' = Some(saved.rows)
           /\ disk' = save_files(disk, saved.mgr.conversations,
                                 saved.mgr.conversation_keys)
           /\ files' = files \cup
                  {file_name(saved.mgr.conversations[k]) :
                       k \in DOMAIN saved.mgr.conversations}
    /\ Returned("save_all_conversations", None)
    /\ UNCHANGED <<now, pc, frame>>

NextDrivers ==
    \/ \E client \in Clients : SendSetupFail(client)
    \/ \E client \in Clients, prompt \in Prompts, image_url \in Images :
           DriverResume(client, prompt, image_url)
    \/ \E client \in Clients, prompt \in Prompts, image_url \in Images :
           SendNew(client, prompt, image_url)
    \/ DownloadOk
    \/ DownloadFail
    \/ \E response \in Responses : VendorOk(response)
    \/ VendorFail
    \/ DriverFinish
    \/ DriverSave
    \/ Tick

SpecDrivers == Init /\ [][NextDrivers]_vars

----------------------------------------------------------------------------
(* Properties *)

convs == conversation_manager.conversations
current == conversation_manager.current_conversation_ids

IsPrefix(p, q) ==
    /\ Len(p) <= Len(q)
    /\ \A i \in 1..Len(p) : q[i] = p[i]

\* The sum of f[x] over the finite set S.
RECURSIVE SumOver(_, _)
SumOver(S, f) ==
    IF S = {} THEN 0
    ELSE LET x == CHOOSE y \in S : TRUE
         IN  f[x] + SumOver(S \ {x}, f)

\* The fraction <<p, q>> is the mean of f over the non-empty set S.
IsMeanOf(frac, S, f) ==
    /\ frac[2] > 0
    /\ frac[1] * Cardinality(S) = frac[2] * SumOver(S, f)

UserPositions(messages) ==
    {i \in 1..Len(messages) : messages[i].role = "user"}

\* The positions of the assistant messages that directly follow a user message.
ReplyPositions(messages) ==
    {i \in 2..Len(messages) : /\ messages[i].role = "assistant"
                              /\ messages[i - 1].role = "user"}

AssistantPositions(messages) ==
    {i \in 1..Len(messages) : messages[i].role = "assistant"}

TextLength(content) ==
    IF content.kind = "text" THEN Len(content.text)
    ELSE SumOver({k \in 1..Len(content.parts) : "text" \in DOMAIN content.parts[k]},
                 [k \in 1..Len(content.parts) |->
                      IF "text" \in DOMAIN content.parts[k]
                      THEN Len(content.parts[k].text) ELSE 0])

ResponseTimeIs(frac, messages) ==
    LET P == ReplyPositions(messages)
        gap == [i \in 2..Len(messages) |->
                    messages[i].timestamp - messages[i - 1].timestamp]
    IN  IF P = {} THEN frac = Zero ELSE IsMeanOf(frac, P, gap)

ResponseLengthIs(frac, messages) ==
    LET A == AssistantPositions(messages)
        len == [i \in 1..Len(messages) |-> TextLength(messages[i].content)]
    IN  IF A = {} THEN frac = Zero ELSE IsMeanOf(frac, A, len)

\* conv.metrics is what the spec derives from conv's messages and time bounds.
MetricsCurrent(conv) ==
    /\ conv.metrics # None
    /\ conv.end_time # None
    /\ conv.metrics[1].total_duration = conv.end_time[1] - conv.start_time
    /\ conv.metrics[1].num_turns = Cardinality(UserPositions(conv.messages))
    /\ ResponseTimeIs(conv.metrics[1].avg_assistant_response_time, conv.messages)
    /\ ResponseLengthIs(conv.metrics[1].avg_assistant_response_length,
                        conv.messages)

\* C1: start_conversation(backend, model) returns an identifier that was not
\* registered before the call; afterwards the store maps it to a conversation
\* with that backend name and model, no messages, start_time set to the time
\* of the call, end_time unset and metrics absent, and the backend's current
\* conversation is the returned identifier.
C1_StartConversation ==
    [][\A api_name \in ApiNames, model \in Models :
           lastCall'.op = "start_conversation"
               /\ StartConversationCall(api_name, model) =>
               LET id == Result(lastCall')
               IN  /\ id \notin DOMAIN convs
                   /\ id \in DOMAIN convs'
                   /\ convs'[id].id = id
                   /\ convs'[id].api_name = api_name
                   /\ convs'[id].model = model
                   /\ convs'[id].messages = <<>>
                   /\ convs'[id].start_time = now
                   /\ convs'[id].end_time = None
                   /\ convs'[id].metrics = None
                   /\ current'[api_name] = Some(id)]_vars

C1_Witness ==
    /\ lastCall.op = "start_conversation"
    /\ Result(lastCall) = 2
    /\ DOMAIN convs = {1, 2}
    /\ convs[1].messages # <<>>
    /\ "custom" \in DOMAIN current
    /\ current["custom"] = Some(2)

\* C2: add_message(id, message) on a registered id makes the message the last
\* element of that conversation's list, leaves the earlier messages as they
\* were and returns true; on an unregistered id it returns false and changes
\* no conversation, no message list and no current pointer.
C2_AddMessage ==
    [][\A conv_id \in AnyIds, m \in MessageArgs :
           lastCall'.op = "add_message"
               /\ AddMessageCall(conv_id, m[1], m[2], m[3]) =>
               IF conv_id \in DOMAIN convs
               THEN LET before == convs[conv_id].messages
                        after == convs'[conv_id].messages
                    IN  /\ Result(lastCall') = TRUE
                        /\ Len(after) = Len(before) + 1
                        /\ after[Len(after)] = Message(m[1], m[2], m[3])
                        /\ \A i \in 1..Len(before) : after[i] = before[i]
               ELSE /\ Result(lastCall') = FALSE
                    /\ convs' = convs
                    /\ current' = current]_vars

C2_Witness ==
    /\ lastCall.op = "add_message"
    /\ Result(lastCall) = TRUE
    /\ \E c \in DOMAIN convs :
           /\ Len(convs[c].messages) = 2
           /\ convs[c].messages[1] # convs[c].messages[2]

\* C3: end_conversation(id) on a registered id sets that conversation's
\* end_time to the current time and returns true; on an unregistered id it
\* returns false and leaves every conversation unchanged.
C3_EndConversation ==
    [][\A conv_id \in AnyIds :
           lastCall'.op = "end_conversation"
               /\ EndConversationCall(conv_id) =>
               IF conv_id \in DOMAIN convs
               THEN /\ Result(lastCall') = TRUE
                    /\ convs'[conv_id].end_time = Some(now)
               ELSE /\ Result(lastCall') = FALSE
                    /\ convs' = convs]_vars

\* A conversation that was ended at time 1 has been ended again at time 2.
C3_Witness ==
    /\ lastCall.op = "end_conversation"
    /\ Result(lastCall) = TRUE
    /\ now = 2
    /\ \E c \in DOMAIN convs :
           /\ convs[c].end_time = Some(2)
           /\ convs[c].metrics # None
           /\ convs[c].metrics[1].total_duration = 0

\* C4: every value of current_conversation_ids is null or a key of
\* conversations.
C4_CurrentResolves ==
    \A b \in DOMAIN current :
        current[b] = None \/ current[b][1] \in DOMAIN convs

C4_Witness ==
    /\ lastCall.op = "save_all_conversations"
    /\ current["monica"] = Some(2)
    /\ "custom" \in DOMAIN current
    /\ current["custom"] = Some(1)
    /\ current["openai"] = None

\* C5: in a run driven through the adapters every conversation's message
\* list changes only by growing at its tail (the list before a step is a
\* prefix of the list after it, so every earlier list is a prefix of every
\* later one), and the timestamps never decrease along a list.
C5_AppendOnly ==
    /\ [][\A c \in DOMAIN convs :
              /\ c \in DOMAIN convs'
              /\ IsPrefix(convs[c].messages, convs'[c].messages)]_vars
    /\ [](\A c \in DOMAIN convs :
              \A i \in 1..Len(convs[c].messages) :
                  \A j \in i..Len(convs[c].messages) :
                      convs[c].messages[i].timestamp
                          <= convs[c].messages[j].timestamp)

\* Two turns in one conversation, the second one sent after time has passed.
C5_Witness ==
    \E c \in DOMAIN convs :
        /\ Len(convs[c].messages) = 4
        /\ convs[c].messages[1].role = "user"
        /\ convs[c].messages[2].role = "assistant"
        /\ convs[c].messages[2].timestamp = 1
        /\ convs[c].messages[3].role = "user"
        /\ convs[c].messages[3].timestamp = 2
        /\ convs[c].messages[4].role = "assistant"

\* C6: calculate_metrics called again, with no other call in between, gives
\* the conversation the same metrics (all four values) as the call before.
C6_Idempotent ==
    [][\A conv_id \in ConvIds :
           lastCall.op = "calculate_metrics"
               /\ lastCall'.op = "calculate_metrics"
               /\ CalculateMetricsCall(conv_id) =>
               /\ convs'[conv_id].metrics = convs[conv_id].metrics
               /\ Result(lastCall') = Result(lastCall)]_vars

\* The metrics of a four-message conversation have been computed at time 1
\* and time has passed, so that a second call reads a later clock.
C6_Witness ==
    /\ lastCall.op = "calculate_metrics"
    /\ now = 2
    /\ convs[1].end_time = Some(1)
    /\ convs[1].metrics # None
    /\ convs[1].metrics[1].num_turns = 2
    /\ convs[1].metrics[1].avg_assistant_response_length # Zero
    /\ Len(convs[1].messages) = MaxLen

\* C7: for every sequence of roles, the empty one included, the num_turns
\* that calculate_metrics computes is the number of user messages.
C7_NumTurns ==
    \A c \in DOMAIN convs :
        convs[c].metrics # None =>
            convs[c].metrics[1].num_turns
                = Cardinality(UserPositions(convs[c].messages))

\* Two user/assistant turns give num_turns = 2.
C7_Witness ==
    /\ lastCall.op = "calculate_metrics"
    /\ Len(convs[1].messages) = 4
    /\ \A i \in 1..4 :
           convs[1].messages[i].role = IF i % 2 = 1 THEN "user" ELSE "assistant"
    /\ convs[1].metrics # None
    /\ convs[1].metrics[1].num_turns = 2

\* C8: avg_assistant_response_time is the mean of timestamp[i] - timestamp[i-1]
\* over exactly the positions i where message i is an assistant message and
\* message i-1 a user message, and 0 when there is no such position.
C8_AvgResponseTime ==
    \A c \in DOMAIN convs :
        convs[c].metrics # None =>
            ResponseTimeIs(convs[c].metrics[1].avg_assistant_response_time,
                           convs[c].messages)

\* Two replies, one after 1 and one after 0 time units: the mean is 1/2.
C8_Witness ==
    /\ lastCall.op = "calculate_metrics"
    /\ Cardinality(ReplyPositions(convs[1].messages)) = 2
    /\ convs[1].metrics # None
    /\ convs[1].metrics[1].avg_assistant_response_time = <<1, 2>>

\* C9: calculate_metrics ends a conversation that has not been ended, leaves
\* the end_time of an ended one unchanged, and changes neither the messages
\* nor id, backend name, model or start_time.
C9_MetricsFrame ==
    [][\A conv_id \in ConvIds :
           lastCall'.op = "calculate_metrics"
               /\ CalculateMetricsCall(conv_id) =>
               LET before == convs[conv_id]
                   after == convs'[conv_id]
               IN  /\ before.end_time = None => after.end_time # None
                   /\ before.end_time # None => after.end_time = before.end_time
                   /\ after.messages = before.messages
                   /\ after.id = before.id
                   /\ after.api_name = before.api_name
                   /\ after.model = before.model
                   /\ after.start_time = before.start_time]_vars

\* The metrics of a conversation ended at time 1 have been computed at time 2.
C9_Witness ==
    /\ lastCall.op = "calculate_metrics"
    /\ now = 2
    /\ \E c \in DOMAIN convs :
           /\ convs[c].end_time = Some(1)
           /\ convs[c].start_time = 1
           /\ convs[c].messages # <<>>
           /\ convs[c].metrics # None
           /\ Result(lastCall) = convs[c].metrics[1]
           /\ \A d \in DOMAIN convs \ {c} : convs[d].metrics = None

\* C10: when save_all_conversations returns, every stored conversation is
\* ended and carries the metrics of its current messages; the call has written
\* one conversation file per stored conversation and returns their names, one
\* entry each; the summary CSV is written after all of them, with one row per
\* stored conversation.
C10_SaveAll ==
    [][lastCall'.op = "save_all_conversations" /\ SaveSummary =>
           LET saved == Result(lastCall')
               keys == conversation_manager'.conversation_keys
           IN  /\ \A c \in DOMAIN convs' : MetricsCurrent(convs'[c])
               /\ Len(saved) = Cardinality(DOMAIN convs')
               /\ \A c \in DOMAIN convs' :
                      /\ Cardinality({i \in 1..Len(saved) :
                                          saved[i] = file_name(convs'[c])}) = 1
                      /\ file_name(convs'[c]) \in files
               /\ csv' # None
               /\ Len(csv'[1]) = Cardinality(DOMAIN convs')
               /\ \A c \in DOMAIN convs' :
                      Cardinality({i \in 1..Len(csv'[1]) :
                                       csv'[1][i].id = c}) = 1]_vars

\* Two conversations, one of them with a reply, have been saved after the
\* clock advanced during the call.
C10_Witness ==
    /\ lastCall.op = "save_all_conversations"
    /\ pc = "idle"
    /\ Len(Result(lastCall)) = 2
    /\ csv # None
    /\ Len(csv[1]) = 2
    /\ DOMAIN convs = {1, 2}
    /\ convs[1].end_time = Some(1)
    /\ convs[2].end_time = Some(2)
    /\ \A c \in DOMAIN convs : MetricsCurrent(convs[c])
    /\ convs[1].metrics[1].num_turns = 1
    /\ ReplyPositions(convs[1].messages) # {}

\* C11: send_message never raises to its caller. When client setup fails,
\* when the conversation_id is not registered, or when anything fails after
\* the user message, it returns the pair (None, None); when the vendor call
\* succeeds it returns the response together with the identifier of the
\* conversation whose last two messages are now the user message of this call
\* and the assistant's reply. In every case control is back at the caller.
C11_SendNeverRaises ==
    [][/\ \A client \in Clients, conversation_id \in AnyIds :
              lastCall'.op = "send_message"
                  /\ (SendSetupFail(client) \/ SendUnknown(client, conversation_id)) =>
                  /\ Result(lastCall') = <<None, None>>
                  /\ pc' = "idle"
       /\ lastCall'.op = "send_message" /\ VendorFail =>
              /\ Result(lastCall') = <<None, None>>
              /\ pc' = "idle"
       /\ \A response \in Responses :
              lastCall'.op = "send_message" /\ VendorOk(response) =>
                  LET id == frame.conversation_id
                      msgs == convs'[id].messages
                      n == Len(msgs)
                  IN  /\ Result(lastCall') = <<Some(response), Some(id)>>
                      /\ id \in DOMAIN convs
                      /\ n >= 2
                      /\ msgs[n - 1].role = "user"
                      /\ msgs[n - 1].content =
                             user_content(frame.client, frame.prompt,
                                          frame.image_url)
                      /\ msgs[n].role = "assistant"
                      /\ msgs[n].content = Text(response)
                      /\ pc' = "idle"
       /\ pc = "vendor" /\ pc' # "vendor" =>
              /\ pc' = "idle"
              /\ lastCall'.op = "send_message"]_vars

\* A call on a second conversation has succeeded after the vendor call of
\* the first conversation failed and left its user message without a reply.
C11_Witness ==
    /\ pc = "idle"
    /\ lastCall.op = "send_message"
    /\ Result(lastCall) = <<Some(hello), Some(2)>>
    /\ DOMAIN convs = {1, 2}
    /\ Len(convs[1].messages) = 1
    /\ Len(convs[2].messages) = 2

\* C18: the image download loop of the Gemini client makes at most 3
\* attempts. Before attempt k+1 it has slept the first k of the delays 2, 4;
\* a successful attempt leaves the loop with the image in contents; the third
\* failure sleeps no more, selects the text model with the prompt alone as
\* contents, and goes on to the vendor call.
C18_RetryLoop ==
    /\ [](pc = "download" =>
              /\ frame.attempt \in 0..2
              /\ frame.slept = SubSeq(<<2, 4>>, 1, frame.attempt)
              /\ frame.contents = None)
    /\ [](pc = "vendor" /\ frame.client = "gemini" /\ frame.image_url # None =>
              /\ frame.attempt \in 0..2
              /\ frame.slept = SubSeq(<<2, 4>>, 1, frame.attempt)
              /\ \/ frame.contents = Some(<<frame.prompt, "img">>)
                 \/ /\ frame.contents = Some(<<frame.prompt>>)
                    /\ frame.attempt = 2
                    /\ frame.model_name = "gemini-2.5-pro")
    /\ [][pc = "download" /\ frame.attempt = 2 /\ DownloadFail =>
              /\ pc' = "vendor"
              /\ frame'.slept = frame.slept
              /\ frame'.contents = Some(<<frame.prompt>>)]_vars
    /\ [][pc = "download" /\ DownloadOk =>
              /\ pc' = "vendor"
              /\ frame'.slept = frame.slept
              /\ frame'.contents = Some(<<frame.prompt, "img">>)]_vars

\* Three attempts have failed and the call is at the vendor with the prompt
\* alone, after sleeping 2 and then 4.
C18_Witness ==
    /\ pc = "vendor"
    /\ frame.client = "gemini"
    /\ frame.image_url # None
    /\ frame.slept = <<2, 4>>
    /\ frame.contents = Some(<<hi>>)

\* C14: evaluate_conversation on a list of n messages scores exactly n \div 2
\* turns; turn k is evaluate_response on message 2k-1 as prompt and message 2k
\* as response (counting from 1), with the earlier pairs as context; a last
\* message without a partner is not scored; and with no complete pair the
\* result is the error marker "No valid turns to evaluate" and holds no score.
C14_PairsEvaluated ==
    [][\A conv_id \in ConvIds :
           lastCall'.op = "evaluate_conversation" /\ EvaluateStored(conv_id) =>
               LET messages == convs[conv_id].messages
                   n == Len(messages)
                   result == Result(lastCall')
                   text_of(k) == prompt_text(messages[2 * k - 1].content)
               IN  IF n \div 2 = 0
                   THEN /\ result = [error |-> "No valid turns to evaluate"]
                        /\ DOMAIN result = {"error"}
                   ELSE /\ DOMAIN result = {"turn_scores", "average_score",
                                            "average_dimensions"}
                        /\ Len(result.turn_scores) = n \div 2
                        /\ \A k \in 1..(n \div 2) :
                               result.turn_scores[k] =
                                   evaluate_response(frame.evaluator, text_of(k),
                                       messages[2 * k].content.text,
                                       [j \in 1..(k - 1) |->
                                            [prompt |-> text_of(j),
                                             response |->
                                                 messages[2 * j].content.text]])]_vars

\* A conversation of three messages has been evaluated: one turn was scored
\* and the third message, which has no reply, was not.
C14_Witness ==
    /\ lastCall.op = "evaluate_conversation"
    /\ Len(convs[1].messages) = 3
    /\ frame.conversation = None
    /\ "turn_scores" \in DOMAIN Result(lastCall)
    /\ Len(Result(lastCall).turn_scores) = 1

\* C15: the total_score evaluate_response returns is the sum over the five
\* dimensions of score * weight, the weights being 0.25, 0.25, 0.20, 0.15 and
\* 0.15, which add up to 1; relevance, completeness and coherence lie in
\* [0, 1], accuracy and creativity in [0.5, 1]; and so total_score lies in
\* [0, 1]. (Scores and weights are in units of 1/10000, the total in units of
\* 1/10000^2.)
C15_WeightedTotal ==
    lastCall.op = "evaluate_response" =>
        LET value == Result(lastCall).value
            d == value.dimensions
        IN  /\ DOMAIN d = {"relevance", "accuracy", "completeness",
                           "coherence", "creativity"}
            /\ d.relevance.weight = 2500
            /\ d.accuracy.weight = 2500
            /\ d.completeness.weight = 2000
            /\ d.coherence.weight = 1500
            /\ d.creativity.weight = 1500
            /\ d.relevance.weight + d.accuracy.weight + d.completeness.weight
                   + d.coherence.weight + d.creativity.weight = One
            /\ value.total_score =
                   d.relevance.score * 2500 + d.accuracy.score * 2500
                       + d.completeness.score * 2000 + d.coherence.score * 1500
                       + d.creativity.score * 1500
            /\ d.relevance.score \in 0..One
            /\ d.completeness.score \in 0..One
            /\ d.coherence.score \in 0..One
            /\ d.accuracy.score \in 5000..One
            /\ d.creativity.score \in 5000..One
            /\ value.total_score \in 0..(One * One)

\* A reply with three paragraphs and five connectors has been scored after an
\* earlier turn: the terms of its coherence add up to more than 1 and the
\* score is clamped to 1, while its other scores lie inside their ranges.
C15_Witness ==
    /\ lastCall.op = "evaluate_response"
    /\ Result(lastCall).response = essay
    /\ Result(lastCall).context # <<>>
    /\ Result(lastCall).value.dimensions.coherence.score = One
    /\ Result(lastCall).value.dimensions.accuracy.score \in 5001..(One - 1)
    /\ Result(lastCall).value.total_score \in 1..(One * One - 1)

\* C19: the messages reconstructed from a conversation's file are those of
\* the conversation: as many, in the same order, each with the same role, the
\* same content (a text or a list of parts) and the same timestamp.
C19_RoundTrip ==
    [][\A name \in DOMAIN disk :
           lastCall'.op = "SimpleConversation" /\ LoadConversation(name) =>
               \A conv_id \in DOMAIN convs :
                   file_name(convs[conv_id]) = name =>
                       LET stored == convs[conv_id].messages
                           loaded == frame'.conversation[1].messages
                       IN  /\ Len(loaded) = Len(stored)
                           /\ \A k \in 1..Len(stored) :
                                  /\ loaded[k].role = stored[k].role
                                  /\ loaded[k].content = stored[k].content
                                  /\ loaded[k].timestamp = stored[k].timestamp]_vars

\* A conversation whose first message holds a text part and an image part,
\* followed by a reply and an unanswered prompt, has been saved and read back.
C19_Witness ==
    /\ lastCall.op = "SimpleConversation"
    /\ frame.conversation # None
    /\ Len(frame.conversation[1].messages) = 3
    /\ frame.conversation[1].messages[1].content.kind = "parts"
    /\ Len(frame.conversation[1].messages[1].content.parts) = 2
    /\ frame.conversation[1].messages[2].content = Text(rich)

ApiIndex(api) == CHOOSE a \in 1..Len(frame.apis) : frame.apis[a] = api

\* The calls of send_message the run has made, in order.
CallEvents == SelectSeq(frame.events, LAMBDA e : e.kind = "call")

\* C12 as stated: whatever calls fail, multi_turn_test with evaluation
\* enabled returns its results and does not raise.
C12_RunNeverRaises ==
    lastCall.op = "multi_turn_test" /\ frame.evaluate =>
        /\ DOMAIN Result(lastCall) = {"results"}
        /\ Len(Result(lastCall).results) = Len(frame.flows)

\* C13 as stated: turn j of a flow is sent to every backend before turn j+1
\* of that flow is sent to any backend.
C13_RoundRobin ==
    \A q \in 1..Len(frame.events) :
        frame.events[q].kind = "call" /\ frame.events[q].turn > 1 =>
            \A a \in 1..Len(frame.apis) :
                \E p \in 1..(q - 1) :
                    /\ frame.events[p].kind = "call"
                    /\ frame.events[p].flow = frame.events[q].flow
                    /\ frame.events[p].api = frame.apis[a]
                    /\ frame.events[p].turn = frame.events[q].turn - 1

\* C13: the calls of a run are sequential and grouped by backend. Every call
\* returns before the next one begins; the calls are made in the order of
\* (flow, backend, turn), so within a flow every turn sent to one backend
\* comes before any turn sent to the next backend; and turn j+1 goes to a
\* backend only directly after turn j returned a response from it, a failed
\* call being the backend's last of the flow.
C13_BackendMajor ==
    /\ (pc = "run_call") <=> (Len(frame.events) % 2 = 1)
    /\ \A p \in 1..Len(frame.events) :
           IF p % 2 = 1 THEN frame.events[p].kind = "call"
           ELSE /\ frame.events[p].kind \in {"response", "none"}
                /\ frame.events[p].flow = frame.events[p - 1].flow
                /\ frame.events[p].api = frame.events[p - 1].api
                /\ frame.events[p].turn = frame.events[p - 1].turn
    /\ \A p, q \in 1..Len(CallEvents) :
           p < q =>
               LET e == CallEvents[p]
                   f == CallEvents[q]
               IN  \/ e.flow < f.flow
                   \/ e.flow = f.flow /\ ApiIndex(e.api) < ApiIndex(f.api)
                   \/ e.flow = f.flow /\ e.api = f.api /\ e.turn < f.turn
    /\ \A q \in 1..Len(frame.events) :
           frame.events[q].kind = "call" /\ frame.events[q].turn > 1 =>
               /\ q > 2
               /\ frame.events[q - 1] =
                      [kind |-> "response", flow |-> frame.events[q].flow,
                       api |-> frame.events[q].api,
                       turn |-> frame.events[q].turn - 1]

\* Both turns of the first flow went to the first backend, the second one
\* failing, before the first turn went to the second backend.
C13_Witness ==
    /\ Len(frame.apis) = 2
    /\ Len(frame.events) >= 6
    /\ frame.events[3] =
           [kind |-> "call", flow |-> 1, api |-> frame.apis[1], turn |-> 2]
    /\ frame.events[4].kind = "none"
    /\ frame.events[5] =
           [kind |-> "call", flow |-> 1, api |-> frame.apis[2], turn |-> 1]
    /\ frame.events[6].kind = "response"

\* C16 as stated: every backend in a flow's results has an entry, an
\* evaluation or an error marker, in the flow's evaluation output.
C16_EveryBackendHasEntry ==
    frame.evaluation_results # None =>
        \A i \in 1..Len(frame.results) :
            \A api \in DOMAIN frame.results[i].api_results :
                api \in DOMAIN frame.evaluation_results[1].flows[i].api_evaluations

\* The flows in which a backend has an evaluation without an error marker.
ScoredFlows(api) ==
    {i \in 1..Len(frame.results) :
         /\ api \in DOMAIN frame.evaluation_results[1].flows[i].api_evaluations
         /\ "error" \notin
                DOMAIN frame.evaluation_results[1].flows[i].api_evaluations[api]}

\* The sum of average_score of a backend over a set of flows.
RECURSIVE SumAverages(_, _)
SumAverages(api, flows) ==
    IF flows = {} THEN 0
    ELSE LET i == CHOOSE x \in flows : TRUE
         IN  frame.evaluation_results[1].flows[i].api_evaluations[api].average_score
                 + SumAverages(api, flows \ {i})

\* C17: overall_scores holds an entry for exactly the backends that have an
\* evaluation without an error marker in some flow, and the entry is the
\* mean of average_score over those flows (rounded down to the unit of the
\* scores).
C17_OverallMean ==
    frame.evaluation_results # None =>
        \A api \in Clients :
            IF ScoredFlows(api) = {}
            THEN api \notin DOMAIN frame.evaluation_results[1].overall_scores
            ELSE /\ api \in DOMAIN frame.evaluation_results[1].overall_scores
                 /\ frame.evaluation_results[1].overall_scores[api] =
                        SumAverages(api, ScoredFlows(api))
                            \div Cardinality(ScoredFlows(api))

\* Of two backends and two flows, the first backend was scored in both flows
\* with different averages, and the second has a score in the first flow and
\* an error marker in the second.
C17_Witness ==
    /\ frame.evaluation_results # None
    /\ Len(frame.apis) = 2
    /\ ScoredFlows(frame.apis[1]) = {1, 2}
    /\ frame.evaluation_results[1].flows[1].api_evaluations[frame.apis[1]].average_score
           # frame.evaluation_results[1].flows[2].api_evaluations[frame.apis[1]].average_score
    /\ ScoredFlows(frame.apis[2]) = {1}
    /\ frame.apis[2] \in DOMAIN frame.evaluation_results[1].flows[2].api_evaluations
    /\ DOMAIN frame.evaluation_results[1].overall_scores =
           {frame.apis[1], frame.apis[2]}

\* C21 as stated: a pair whose prompt or whose response is structured (a
\* list of parts or a dict with a "text" field) is scored and nothing is
\* raised.
C21_StructuredScored ==
    lastCall.op = "evaluate_given" =>
        /\ "raised" \notin DOMAIN Result(lastCall).value
        /\ "turn_scores" \in DOMAIN Result(lastCall).value
        /\ Len(Result(lastCall).value.turn_scores) =
               Len(Result(lastCall).conversation.messages) \div 2

\* The fraction of the distinct words of the prompt of the call that occur in
\* its response, in units of 1/10000.
CallOverlap ==
    (Cardinality(set_of(tokenize(lower(frame.prompt)))
                     \cap set_of(tokenize(lower(frame.response)))) * One)
        \div Max(1, Cardinality(set_of(tokenize(lower(frame.prompt)))))

\* C24 as stated: a response of 200 to 5000 characters gets the length
\* factor 1, so its relevance is 0.7 + 0.3 x overlap.
C24_FactorOneFrom200 ==
    lastCall.op = "evaluate_relevance" /\ Len(frame.response) \in 200..5000 =>
        Result(lastCall) = Min(One, 7000 + (3 * CallOverlap) \div 10)

\* C24: relevance is 0.7 + 0.3 x overlap x length factor clamped to [0, 1],
\* where the length factor is len / 1000 for a response shorter than 1000
\* characters, 5000 / len for one longer than 5000, and 1 exactly for the
\* lengths 1000 to 5000; a prompt and a response that share no word score
\* exactly 0.7.
C24_Relevance ==
    lastCall.op = "evaluate_relevance" =>
        LET n == Len(frame.response)
            factor == IF n < 1000 THEN (n * One) \div 1000
                      ELSE IF n > 5000 THEN (5000 * One) \div n
                      ELSE One
        IN  /\ Result(lastCall) =
                   Min(One, Max(0, 7000 + (3 * ((CallOverlap * factor) \div One))
                                               \div 10))
            /\ Result(lastCall) \in 7000..One
            /\ (factor = One) <=> (n \in 1000..5000)
            /\ CallOverlap = 0 => Result(lastCall) = 7000

\* A response of 300 characters that holds the only word of the prompt has
\* been scored 0.7 + 0.3 x 1 x 0.3.
C24_Witness ==
    /\ lastCall.op = "evaluate_relevance"
    /\ frame.prompt = there
    /\ Len(frame.response) = 300
    /\ Result(lastCall) = 7900

\* C22 as stated: after a conversation is started or a message is appended
\* to it, it is the current conversation of its backend.
C22_MostRecentlyActive ==
    [][\A id \in DOMAIN conversation_manager'.conversations :
           (\/ id \notin DOMAIN conversation_manager.conversations
            \/ Len(conversation_manager'.conversations[id].messages)
                   > Len(conversation_manager.conversations[id].messages)) =>
               conversation_manager'.current_conversation_ids[
                   conversation_manager'.conversations[id].api_name] = Some(id)]_vars

\* C23: start_conversation(backend, model) leaves every conversation that
\* was registered as it was (all its fields, so the backend's old current
\* conversation is not ended), still found by get_conversation under its
\* identifier; it leaves the current pointer of every other backend as it
\* was; and the backend's pointer is the new identifier.
C23_StartFrame ==
    [][\A api_name \in ApiNames, model \in Models :
           lastCall'.op = "start_conversation"
               /\ StartConversationCall(api_name, model) =>
               /\ Result(lastCall') \notin DOMAIN conversation_manager.conversations
               /\ \A id \in DOMAIN conversation_manager.conversations :
                      /\ id \in DOMAIN conversation_manager'.conversations
                      /\ conversation_manager'.conversations[id] =
                             conversation_manager.conversations[id]
                      /\ get_conversation(conversation_manager', id) =
                             Some(conversation_manager.conversations[id])
               /\ \A b \in DOMAIN conversation_manager.current_conversation_ids :
                      b # api_name =>
                          conversation_manager'.current_conversation_ids[b] =
                              conversation_manager.current_conversation_ids[b]
               /\ conversation_manager'.current_conversation_ids[api_name] =
                      Some(Result(lastCall'))]_vars

\* A second conversation has been started for a backend whose first
\* conversation holds a message and is still open.
C23_Witness ==
    /\ lastCall.op = "start_conversation"
    /\ Result(lastCall) = 2
    /\ DOMAIN conversation_manager.conversations = {1, 2}
    /\ conversation_manager.conversations[1].api_name = "monica"
    /\ conversation_manager.conversations[2].api_name = "monica"
    /\ Len(conversation_manager.conversations[1].messages) = 1
    /\ conversation_manager.conversations[1].end_time = None
    /\ conversation_manager.current_conversation_ids["monica"] = Some(2)

\* C29: add_message on a conversation whose end_time is set appends the
\* message and returns true, and leaves end_time and metrics as they were.
C29_WritableAfterEnd ==
    [][\A conv_id \in ConvIds, m \in MessageArgs :
           (/\ lastCall'.op = "add_message"
            /\ AddMessageCall(conv_id, m[1], m[2], m[3])
            /\ conv_id \in DOMAIN conversation_manager.conversations
            /\ conversation_manager.conversations[conv_id].end_time # None) =>
               /\ Result(lastCall') = TRUE
               /\ conversation_manager'.conversations[conv_id].messages =
                      Append(conversation_manager.conversations[conv_id].messages,
                             Message(m[1], m[2], m[3]))
               /\ conversation_manager'.conversations[conv_id].end_time =
                      conversation_manager.conversations[conv_id].end_time
               /\ conversation_manager'.conversations[conv_id].metrics =
                      conversation_manager.conversations[conv_id].metrics]_vars

\* A user message was appended to a conversation after it was ended and
\* measured: its metrics count no turn and its message is later than its
\* end_time.
C29_Witness ==
    /\ lastCall.op = "add_message"
    /\ Result(lastCall) = TRUE
    /\ 1 \in DOMAIN conversation_manager.conversations
    /\ conversation_manager.conversations[1].end_time = Some(1)
    /\ conversation_manager.conversations[1].metrics # None
    /\ conversation_manager.conversations[1].metrics[1].num_turns = 0
    /\ Len(conversation_manager.conversations[1].messages) = 1
    /\ conversation_manager.conversations[1].messages[1].role = "user"
    /\ conversation_manager.conversations[1].messages[1].timestamp = 2

\* The prompt and reply of the first k turns of a list of messages, in
\* order, the prompt as the text evaluate_conversation extracts from it.
EarlierPairs(messages, k) ==
    [j \in 1..k |-> [prompt |-> prompt_text(messages[2 * j - 1].content),
                     response |-> messages[2 * j].content.text]]

\* C25: the score of turn k of evaluate_conversation (k counted from 0) is
\* the score evaluate_response gives its prompt and reply with the context
\* made of the pairs of turns 0..k-1 in order, which is empty for turn 0.
C25_ContextIsEarlierPairs ==
    lastCall.op = "evaluate_given" =>
        LET call == Result(lastCall)
            messages == call.conversation.messages
        IN  "turn_scores" \in DOMAIN call.value =>
                \A k \in 1..Len(call.value.turn_scores) :
                    call.value.turn_scores[k] =
                        evaluate_response(frame.evaluator,
                            prompt_text(messages[2 * k - 1].content),
                            messages[2 * k].content.text,
                            EarlierPairs(messages, k - 1))

\* A conversation of three turns was scored whose first and last turn have
\* the same prompt and reply: the last turn, scored with two pairs of
\* context, is found more coherent than the first.
C25_Witness ==
    /\ lastCall.op = "evaluate_given"
    /\ Len(Result(lastCall).conversation.messages) = 6
    /\ "turn_scores" \in DOMAIN Result(lastCall).value
    /\ Len(Result(lastCall).value.turn_scores) = 3
    /\ Result(lastCall).value.turn_scores[3].dimensions.coherence.score
           > Result(lastCall).value.turn_scores[1].dimensions.coherence.score

\* The conversations of the store whose messages are not those of mgr.
Touched(mgr, mgr2) ==
    {id \in DOMAIN mgr2.conversations :
         \/ id \notin DOMAIN mgr.conversations
         \/ mgr2.conversations[id] # mgr.conversations[id]}

\* The user message of the current turn as the backend's adapter builds it.
TurnContent(fr) ==
    user_content(run_api(fr), run_turn(fr).prompt, run_turn(fr).image_url)

\* C27: when the vendor call of send_message fails the caller gets
\* (None, None) and holds no identifier, yet one conversation has gained
\* the user message of the call as its last message, and when the call had
\* no identifier that conversation is a new one in the store holding that
\* message alone; save_all_conversations then writes a file for every
\* conversation of the store, with all its messages.
C27_NoRollback ==
    [][/\ RunVendorFails =>
              /\ Result(lastCall') = <<None, None>>
              /\ frame'.conversation_id = None
              /\ \E id \in DOMAIN conversation_manager'.conversations :
                     LET after == conversation_manager'.conversations[id].messages
                     IN  /\ Touched(conversation_manager,
                                    conversation_manager') = {id}
                         /\ after[Len(after)].role = "user"
                         /\ after[Len(after)].content = TurnContent(frame)
                         /\ IF frame.conversation_id = None
                            THEN /\ id \notin DOMAIN conversation_manager.conversations
                                 /\ Len(after) = 1
                            ELSE /\ id = frame.conversation_id[1]
                                 /\ SubSeq(after, 1, Len(after) - 1) =
                                        conversation_manager.conversations[id].messages
       /\ RunSave =>
              \A id \in DOMAIN conversation_manager.conversations :
                  LET conv == conversation_manager'.conversations[id]
                  IN  /\ conv.messages =
                             conversation_manager.conversations[id].messages
                      /\ file_name(conv) \in files'
                      /\ file_name(conv) \in DOMAIN disk'
                      /\ Len(SimpleConversation(disk'[file_name(conv)]).messages)
                             = Len(conv.messages)]_vars

\* The first call of a run failed at the vendor: the run recorded no
\* identifier for the backend, and the conversation the call started, with
\* its user message alone, has been written to a file.
C27_Witness ==
    /\ pc = "run_return"
    /\ Len(frame.results) = 1
    /\ \A api \in DOMAIN frame.results[1].api_results :
           frame.results[1].api_results[api].conversation_id = None
    /\ 1 \in DOMAIN conversation_manager.conversations
    /\ Len(conversation_manager.conversations[1].messages) = 1
    /\ conversation_manager.conversations[1].messages[1].role = "user"
    /\ file_name(conversation_manager.conversations[1]) \in DOMAIN disk

\* The pairs (flow, backend) for which send_message has returned None.
FailedPairs ==
    {<<frame.events[e].flow, frame.events[e].api>> :
         e \in {x \in 1..Len(frame.events) : frame.events[x].kind = "none"}}

\* C28: once send_message has returned None for a backend in a flow, no
\* later call of that flow goes to that backend; the conversation_id the
\* flow's results record for the backend is None; and the evaluation has no
\* entry for the backend in that flow.
C28_StopsAfterNone ==
    /\ \A e \in 1..Len(frame.events) :
           frame.events[e].kind = "none" =>
               \A later \in (e + 1)..Len(frame.events) :
                   ~ /\ frame.events[later].kind = "call"
                     /\ frame.events[later].flow = frame.events[e].flow
                     /\ frame.events[later].api = frame.events[e].api
    /\ \A pair \in FailedPairs :
           /\ (pair[1] = frame.i /\ pair[2] \in DOMAIN frame.api_results) =>
                  frame.api_results[pair[2]].conversation_id = None
           /\ pair[1] <= Len(frame.results) =>
                  frame.results[pair[1]].api_results[pair[2]].conversation_id
                      = None
           /\ frame.evaluation_results # None =>
                  pair[2] \notin
                      DOMAIN frame.evaluation_results[1].flows[pair[1]].api_evaluations

\* A backend answered the first turn of a flow and failed on the second,
\* and the run has been evaluated: the conversation with the answered turn
\* is in the store.
C28_Witness ==
    /\ frame.evaluation_results # None
    /\ \E e \in 1..Len(frame.events) :
           /\ frame.events[e].kind = "none"
           /\ frame.events[e].turn = 2
           /\ \E id \in DOMAIN conversation_manager.conversations :
                  /\ conversation_manager.conversations[id].api_name =
                         frame.events[e].api
                  /\ Len(conversation_manager.conversations[id].messages) >= 2

\* The flows whose turns, as the adapter of the conversation's backend
\* builds them, are the user messages of the conversation, in order.
FlowsOf(conv) ==
    {i \in 1..Len(frame.flows) :
         /\ Len(conv.messages) <= 2 * Len(frame.flows[i].turns)
         /\ \A p \in 1..Len(conv.messages) :
                p % 2 = 1 =>
                    conv.messages[p].content =
                        user_content(conv.api_name,
                            frame.flows[i].turns[(p + 1) \div 2].prompt,
                            frame.flows[i].turns[(p + 1) \div 2].image_url)}

\* The pairs (flow, backend) for which send_message has been called.
CalledPairs ==
    {<<frame.events[e].flow, frame.events[e].api>> :
         e \in {x \in 1..Len(frame.events) : frame.events[x].kind = "call"}}

\* C30: the store never holds more conversations than pairs (flow, backend)
\* that were called, and the user messages of each conversation are turns
\* of one flow as its own backend's adapter builds them; a call that
\* reaches the store on the first turn of a pair starts one conversation of
\* that backend and touches no other, and on a later turn starts none and
\* appends to the conversation the pair's earlier turn returned.
C30_OneConversationPerPair ==
    /\ [](/\ Cardinality(DOMAIN conversation_manager.conversations)
                 <= Cardinality(CalledPairs)
          /\ \A id \in DOMAIN conversation_manager.conversations :
                 FlowsOf(conversation_manager.conversations[id]) # {})
    /\ [][(pc = "run_call" /\ conversation_manager' # conversation_manager) =>
              \E id \in DOMAIN conversation_manager'.conversations :
                  /\ Touched(conversation_manager, conversation_manager') = {id}
                  /\ conversation_manager'.conversations[id].api_name =
                         run_api(frame)
                  /\ IF frame.j = 1
                     THEN id \notin DOMAIN conversation_manager.conversations
                     ELSE /\ frame.conversation_id = Some(id)
                          /\ id \in DOMAIN conversation_manager.conversations
                          /\ SubSeq(conversation_manager'.conversations[id].messages,
                                    1,
                                    Len(conversation_manager.conversations[id].messages))
                                 = conversation_manager.conversations[id].messages
                  /\ (frame'.conversation_id # None =>
                          frame'.conversation_id = Some(id))]_vars

\* Two backends have each answered both turns of a flow: the store holds
\* two conversations of four messages, one of each backend.
C30_Witness ==
    /\ DOMAIN conversation_manager.conversations = {1, 2}
    /\ conversation_manager.conversations[1].api_name = "openai"
    /\ conversation_manager.conversations[2].api_name = "gemini"
    /\ Len(conversation_manager.conversations[1].messages) = 4
    /\ Len(conversation_manager.conversations[2].messages) = 4
    /\ Cardinality(CalledPairs) = 2

\* The number of user messages of a conversation: what calculate_metrics
\* reports as num_turns.
UserMessages(conv) ==
    Cardinality({p \in 1..Len(conv.messages) : conv.messages[p].role = "user"})

\* C26: in a run of the orchestration functions the messages of every
\* conversation are user, assistant, user, ... from the first on, so that
\* only the last message can be a user message without a reply; the number
\* of user messages, and num_turns where metrics are set, is the number of
\* pairs evaluate_conversation walks or one more.
C26_Alternates ==
    \A id \in DOMAIN conversation_manager.conversations :
        LET conv == conversation_manager.conversations[id]
            pairs == Len(conv.messages) \div 2
        IN  /\ \A p \in 1..Len(conv.messages) :
                   conv.messages[p].role =
                       IF p % 2 = 1 THEN "user" ELSE "assistant"
            /\ UserMessages(conv) \in {pairs, pairs + 1}
            /\ calculate_metrics(conv).metrics[1].num_turns \in {pairs, pairs + 1}
            /\ conv.metrics # None =>
                   conv.metrics[1].num_turns \in {pairs, pairs + 1}

\* A conversation whose second turn failed at the vendor has been saved:
\* it holds user, assistant, user, and its metrics count two turns where
\* evaluate_conversation walks one pair.
C26_Witness ==
    \E id \in DOMAIN conversation_manager.conversations :
        /\ Len(conversation_manager.conversations[id].messages) = 3
        /\ conversation_manager.conversations[id].messages[3].role = "user"
        /\ conversation_manager.conversations[id].metrics # None
        /\ conversation_manager.conversations[id].metrics[1].num_turns = 2
        /\ lastCall.op = "save_all_conversations"

====
